---- MODULE Spec2Model ----
(***************************************************************************)
(* A model of mailingo: the Mailer (an i18n bundle, product, theme,        *)
(* template and custom CSS), its catalog loads and its two renderers,      *)
(* GenerateHTML and GeneratePlainText.                                     *)
(*                                                                         *)
(* Go strings are TLA+ strings, built with \o where the code formats them. *)
(* A plain-text document is the sequence of its lines, that is the         *)
(* document split at every "\n": "a\n\nb" is <<"a", "", "b">>.  An HTML    *)
(* document is the pair <<template source, template context>> that the     *)
(* template engine fills; the empty document "" is <<>>.                   *)
(* Chinese catalog texts are written in ASCII ("Nin hao" for the greeting  *)
(* of testdata/zh.json).                                                   *)
(***************************************************************************)
EXTENDS Naturals, Sequences, FiniteSets, TLC

VARIABLES constructed, mailer, call, ret, goroutines, loader, fatal

vars == <<constructed, mailer, call, ret, goroutines, loader, fatal>>

(***************************************************************************)
(* Bounds of the model.                                                    *)
(***************************************************************************)
\* longest list (intros, outros, dictionary, actions, rows, attachments)
\* of the messages built from the pools
MaxItems == 2
\* calls each goroutine of the concurrent specification makes
MaxCalls == 1

(***************************************************************************)
(* Themes (part_000:114-130).                                              *)
(***************************************************************************)
DefaultTheme ==
  [PrimaryColor |-> "#3869D4", BackgroundColor |-> "#F2F4F6",
   TextColor |-> "#51545E", ButtonColor |-> "#3869D4",
   ButtonTextColor |-> "#FFFFFF"]

FlatTheme ==
  [PrimaryColor |-> "#2F3133", BackgroundColor |-> "#FFFFFF",
   TextColor |-> "#2F3133", ButtonColor |-> "#2F3133",
   ButtonTextColor |-> "#FFFFFF"]

(***************************************************************************)
(* The i18n bundle (go-i18n, used through Mailer.bundle).                  *)
(*   tags              the bundle's languages, the default language first  *)
(*   messageTemplates  per loaded language, message id -> text             *)
(***************************************************************************)
English == "en"

\* i18n.NewBundle(language.English): only the default language, no messages.
\* messageTemplates is the set of the loaded (tag, id, text) entries, at
\* most one per (tag, id).
NewBundle ==
  [defaultLanguage |-> English, tags |-> <<English>>,
   messageTemplates |-> {}]

\* the language of a tag: "zh-CN" is a regional form of "zh"
Base(lang) == IF lang = "zh-CN" THEN "zh" ELSE lang

TagSet(bundle) == {bundle.tags[i] : i \in 1..Len(bundle.tags)}

\* Match that ignores the requested language
Match_DefaultOnly(bundle, lang) == bundle.tags[1]

\* Match that knows no regional forms: an unknown tag is the default
Match_NoBase(bundle, lang) ==
  IF lang \in TagSet(bundle) THEN lang ELSE bundle.tags[1]

\* bundle.matcher.Match of a Localizer's language: the tag itself when the
\* bundle has it, else its language, else the bundle's first tag (the
\* default language); a tag that does not parse matches the first tag too
Match(bundle, lang) ==
  IF lang \in TagSet(bundle) THEN lang
  ELSE IF Base(lang) \in TagSet(bundle) THEN Base(lang)
  ELSE bundle.tags[1]

\* a message text the message template engine cannot parse
Unparsable(text) == text \in {"Hi {{.Name"}

\* a message text that is a template writing nothing when it is executed
\* with no template data, as translate executes it
EmptyRendering == "{{if .Promo}}Special offer{{end}}"

\* what the message template of a text writes when executed with no data
Executed(text) == IF text = EmptyRendering THEN "" ELSE text

\* Bundle.getMessageTemplate: the text stored for (tag, id)
Text(bundle, tag, id) ==
  (CHOOSE e \in bundle.messageTemplates : e.tag = tag /\ e.id = id).text

\* the catalog of tag has a message id
HasTemplate(bundle, tag, id) ==
  \E e \in bundle.messageTemplates : e.tag = tag /\ e.id = id

\* Localizer.Localize(&LocalizeConfig{MessageID: id}) for language lang.
\* The matched tag's template is executed; a message missing there is
\* looked up in the default language and returned together with a
\* MessageNotFoundErr; a text that does not parse is an error.
Localize(bundle, lang, id) ==
  LET tag == Match(bundle, lang)
      dl  == bundle.defaultLanguage
      exec(t, notFound) ==
        IF Unparsable(Text(bundle, t, id))
        THEN [result |-> "", err |-> TRUE]
        ELSE [result |-> Executed(Text(bundle, t, id)), err |-> notFound]
  IN IF HasTemplate(bundle, tag, id) THEN exec(tag, FALSE)
     ELSE IF tag # dl /\ HasTemplate(bundle, dl, id) THEN exec(dl, TRUE)
     ELSE [result |-> "", err |-> TRUE]

\* AddMessages that starts a fresh catalog on every load
AddMessages_Reset(bundle, tag, messages) ==
  [bundle EXCEPT
     !.tags = IF tag \in TagSet(bundle) THEN @ ELSE Append(@, tag),
     !.messageTemplates =
        {[tag |-> tag, id |-> msg.id, text |-> msg.text] : msg \in messages}]

\* Bundle.AddMessages: the file's messages are merged into the catalog of
\* the file's language (a message of the same id is replaced); a language
\* seen for the first time is appended to the bundle's tags
AddMessages(bundle, tag, messages) ==
  LET ids  == {msg.id : msg \in messages}
      kept == {e \in bundle.messageTemplates : ~(e.tag = tag /\ e.id \in ids)}
  IN [bundle EXCEPT
        !.tags = IF tag \in TagSet(bundle) THEN @ ELSE Append(@, tag),
        !.messageTemplates =
           kept \cup {[tag |-> tag, id |-> msg.id, text |-> msg.text] :
                        msg \in messages}]

(***************************************************************************)
(* Templates (html/template).  A template is its name, its source text and *)
(* whether it was parsed.                                                  *)
(***************************************************************************)
\* the embedded templates/default.html
DefaultHTML == "templates/default.html"
\* the README's custom template: reads only fields the context has
TplMinimal == "<h1>{{.Body.Title}}</h1>{{range .Body.Intros}}<p>{{.}}</p>{{end}}"
\* a custom template that indexes the first intro
TplFirstIntro == "<p>{{index .Body.Intros 0}}</p>"
\* a custom template that reads a field the Theme struct does not have
TplBadField == "<p>{{.Theme.Nope}}</p>"
\* a custom template text with an unclosed action: Parse fails
TplUnclosed == "<p>{{.Body.Title</p>"

ParseFails(text) == text = TplUnclosed

\* template.New("email").Parse(text)
Parse(text) == [name |-> "email", src |-> text, parsed |-> TRUE]

\* no template (a nil *template.Template)
NilTemplate == [name |-> "", src |-> "", parsed |-> FALSE]

\* template.New("email") on which Parse was never called: not nil, no tree
UnparsedTemplate == [name |-> "email", src |-> "", parsed |-> FALSE]

\* the embedded default template executes on every context New's Mailer
\* builds (it reads only fields processTranslations provides)
DefaultTemplateFails(data) == FALSE

\* the built-in template's button of action i: its background is the
\* button's own Color when given, else the theme's ButtonColor
DefaultButtonColor(data, i) ==
  IF data.Body.Actions[i].Button.Color # ""
  THEN data.Body.Actions[i].Button.Color
  ELSE data.Theme.ButtonColor

\* the built-in template's button of action i: its class is the outline
\* one for an inverted action, else the solid one
DefaultButtonClass(data, i) ==
  IF data.Body.Actions[i].InvertedButton
  THEN "email-button-inverted"
  ELSE "email-button"

\* Template.Execute(&buf, data) fails: the template was never parsed, reads
\* a field its context lacks, or indexes past the end of a list
ExecuteFails(tmpl, data) ==
  \/ ~tmpl.parsed
  \/ tmpl.src = TplBadField
  \/ tmpl.src = TplFirstIntro /\ Len(data.Body.Intros) = 0
  \/ tmpl.src = DefaultHTML /\ DefaultTemplateFails(data)

\* the document a successful Execute writes
Execute(tmpl, data) == <<tmpl.src, data>>

(***************************************************************************)
(* options.Config and New (part_000:143-195).                              *)
(***************************************************************************)
\* the caller's embedded filesystem and its files: path -> content
CustomFS == "templatesFS"
CustomFSFiles ==
  [path \in {"templates/custom.html", "templates/broken.html"} |->
     IF path = "templates/custom.html" THEN TplMinimal ELSE TplUnclosed]
\* a nil fs.FS
NoFS == "nil"

\* &options.Config{} with no option applied
ZeroConfig ==
  [CustomTemplate |-> NilTemplate, CustomTemplateText |-> "",
   CustomTemplateFS |-> NoFS, CustomTemplatePath |-> "", CustomCSS |-> ""]

WithCustomTemplate(c, tmpl) == [c EXCEPT !.CustomTemplate = tmpl]
WithCustomTemplateString(c, text) == [c EXCEPT !.CustomTemplateText = text]
WithCustomTemplateFile(c, filesystem, path) ==
  [c EXCEPT !.CustomTemplateFS = filesystem, !.CustomTemplatePath = path]
WithCustomCSS(c, css) == [c EXCEPT !.CustomCSS = css]

\* the Mailer a panicking New leaves behind: none
NoMailer ==
  [bundle |-> NewBundle,
   product |-> [Name |-> "", Link |-> "", Logo |-> "", Copyright |-> ""],
   theme |-> DefaultTheme, template |-> NilTemplate, customCSS |-> ""]

\* fs.ReadFile(config.CustomTemplateFS, path) fails
ReadFails(filesystem, path) == path \notin DOMAIN CustomFSFiles

\* New that carries on after a failed read or parse, with no template
New_KeepGoing(product, theme, config) ==
  LET mk(tmpl) ==
        [panic |-> FALSE,
         mailer |-> [bundle |-> NewBundle, product |-> product,
                     theme |-> theme, template |-> tmpl,
                     customCSS |-> config.CustomCSS]]
  IN IF config.CustomTemplate # NilTemplate
     THEN mk(config.CustomTemplate)
     ELSE IF config.CustomTemplateText # ""
     THEN IF ParseFails(config.CustomTemplateText) THEN mk(NilTemplate)
          ELSE mk(Parse(config.CustomTemplateText))
     ELSE IF config.CustomTemplateFS # NoFS /\ config.CustomTemplatePath # ""
     THEN IF ReadFails(config.CustomTemplateFS, config.CustomTemplatePath)
          THEN mk(NilTemplate)
          ELSE IF ParseFails(CustomFSFiles[config.CustomTemplatePath])
          THEN mk(NilTemplate)
          ELSE mk(Parse(CustomFSFiles[config.CustomTemplatePath]))
     ELSE mk(Parse(DefaultHTML))

\* New that tries the template string before the caller's parsed template
New_StringFirst(product, theme, config) ==
  LET mk(tmpl) ==
        [panic |-> FALSE,
         mailer |-> [bundle |-> NewBundle, product |-> product,
                     theme |-> theme, template |-> tmpl,
                     customCSS |-> config.CustomCSS]]
      panics == [panic |-> TRUE, mailer |-> NoMailer]
  IN IF config.CustomTemplateText # ""
     THEN IF ParseFails(config.CustomTemplateText) THEN panics
          ELSE mk(Parse(config.CustomTemplateText))
     ELSE IF config.CustomTemplate # NilTemplate
     THEN mk(config.CustomTemplate)
     ELSE IF config.CustomTemplateFS # NoFS /\ config.CustomTemplatePath # ""
     THEN IF ReadFails(config.CustomTemplateFS, config.CustomTemplatePath)
          THEN panics
          ELSE IF ParseFails(CustomFSFiles[config.CustomTemplatePath]) THEN panics
          ELSE mk(Parse(CustomFSFiles[config.CustomTemplatePath]))
     ELSE mk(Parse(DefaultHTML))

\* New: the template is the caller's parsed template, else the parsed
\* template string, else the parsed file, else the parsed default; a read
\* or parse failure panics
New(product, theme, config) ==
  LET mk(tmpl) ==
        [panic |-> FALSE,
         mailer |-> [bundle |-> NewBundle, product |-> product,
                     theme |-> theme, template |-> tmpl,
                     customCSS |-> config.CustomCSS]]
      panics == [panic |-> TRUE, mailer |-> NoMailer]
  IN IF config.CustomTemplate # NilTemplate
     THEN mk(config.CustomTemplate)
     ELSE IF config.CustomTemplateText # ""
     THEN IF ParseFails(config.CustomTemplateText) THEN panics
          ELSE mk(Parse(config.CustomTemplateText))
     ELSE IF config.CustomTemplateFS # NoFS /\ config.CustomTemplatePath # ""
     THEN IF ReadFails(config.CustomTemplateFS, config.CustomTemplatePath)
          THEN panics
          ELSE IF ParseFails(CustomFSFiles[config.CustomTemplatePath]) THEN panics
          ELSE mk(Parse(CustomFSFiles[config.CustomTemplatePath]))
     ELSE mk(Parse(DefaultHTML))

(***************************************************************************)
(* Mailer.translate (part_000:311-328).                                    *)
(***************************************************************************)
\* translate that returns Localize's result without looking at its error
translate_IgnoreErr(m, lang, key, defaultKey) ==
  LET k == IF key = "" /\ defaultKey # "" THEN defaultKey ELSE key
  IN IF k = "" THEN "" ELSE Localize(m.bundle, lang, k).result

\* translate that never substitutes the default key
translate_NoDefault(m, lang, key, defaultKey) ==
  IF key = "" THEN ""
  ELSE IF Localize(m.bundle, lang, key).err THEN key
  ELSE Localize(m.bundle, lang, key).result

\* translate that looks every key up, the empty one too
translate_LooksUpEmpty(m, lang, key, defaultKey) ==
  LET k == IF key = "" /\ defaultKey # "" THEN defaultKey ELSE key
      r == Localize(m.bundle, lang, k)
  IN IF r.err THEN k ELSE r.result

\* translate that leaves a defaulted field empty when the lookup of its
\* default key fails
translate_BlankWithoutEntry(m, lang, key, defaultKey) ==
  LET k == IF key = "" /\ defaultKey # "" THEN defaultKey ELSE key
      r == Localize(m.bundle, lang, k)
  IN IF k = "" THEN ""
     ELSE IF r.err THEN (IF key = "" THEN "" ELSE k)
     ELSE r.result

translate(m, lang, key, defaultKey) ==
  LET k == IF key = "" /\ defaultKey # "" THEN defaultKey ELSE key
      r == Localize(m.bundle, lang, k)
  IN IF k = "" THEN ""
     ELSE IF r.err THEN k
     ELSE r.result

(***************************************************************************)
(* Mailer.processTranslations (part_000:331-412): the template context.    *)
(***************************************************************************)
\* template.CSS(s): a string typed as trusted CSS
CSS(s) == <<"template.CSS", s>>

\* processTranslations that gives every button the first button's Color
processTranslations_ColorForAll(m, email, lang) ==
  LET body == email.Body
      tr(key) == translate(m, lang, key, "")
      intros == [i \in 1..Len(body.Intros) |-> tr(body.Intros[i])]
      outros == [i \in 1..Len(body.Outros) |-> tr(body.Outros[i])]
      dictionary ==
        [i \in 1..Len(body.Dictionary) |->
           [Key |-> tr(body.Dictionary[i].Key),
            Value |-> body.Dictionary[i].Value]]
      actions ==
        [i \in 1..Len(body.Actions) |->
           [Instructions |-> tr(body.Actions[i].Instructions),
            Button |-> [Text |-> tr(body.Actions[i].Button.Text),
                        Link |-> body.Actions[i].Button.Link,
                        Color |-> body.Actions[1].Button.Color],
            InvertedButton |-> body.Actions[i].InvertedButton]]
      tableData ==
        [i \in 1..Len(body.Table.Data) |->
           [j \in 1..Len(body.Table.Data[i]) |->
              [Key |-> tr(body.Table.Data[i][j].Key),
               Value |-> body.Table.Data[i][j].Value]]]
      attachments ==
        [i \in 1..Len(body.Attachments) |-> body.Attachments[i]]
  IN [Product |-> [Name |-> m.product.Name,
                   Link |-> m.product.Link,
                   Logo |-> m.product.Logo,
                   Copyright |-> translate(m, lang, m.product.Copyright,
                                           "product.copyright")],
      Theme |-> m.theme,
      CustomCSS |-> CSS(m.customCSS),
      Body |-> [Name |-> body.Name,
                Greeting |-> translate(m, lang, body.Greeting, "greeting"),
                Signature |-> translate(m, lang, body.Signature, "signature"),
                Title |-> tr(body.Title),
                Intros |-> intros,
                Dictionary |-> dictionary,
                Table |-> [Data |-> tableData,
                           Columns |-> body.Table.Columns],
                Actions |-> actions,
                Outros |-> outros,
                Attachments |-> attachments]]

\* processTranslations that gives every action the first action's flag
processTranslations_FlagForAll(m, email, lang) ==
  LET body == email.Body
      tr(key) == translate(m, lang, key, "")
      intros == [i \in 1..Len(body.Intros) |-> tr(body.Intros[i])]
      outros == [i \in 1..Len(body.Outros) |-> tr(body.Outros[i])]
      dictionary ==
        [i \in 1..Len(body.Dictionary) |->
           [Key |-> tr(body.Dictionary[i].Key),
            Value |-> body.Dictionary[i].Value]]
      actions ==
        [i \in 1..Len(body.Actions) |->
           [Instructions |-> tr(body.Actions[i].Instructions),
            Button |-> [Text |-> tr(body.Actions[i].Button.Text),
                        Link |-> body.Actions[i].Button.Link,
                        Color |-> body.Actions[i].Button.Color],
            InvertedButton |-> body.Actions[1].InvertedButton]]
      tableData ==
        [i \in 1..Len(body.Table.Data) |->
           [j \in 1..Len(body.Table.Data[i]) |->
              [Key |-> tr(body.Table.Data[i][j].Key),
               Value |-> body.Table.Data[i][j].Value]]]
      attachments ==
        [i \in 1..Len(body.Attachments) |-> body.Attachments[i]]
  IN [Product |-> [Name |-> m.product.Name,
                   Link |-> m.product.Link,
                   Logo |-> m.product.Logo,
                   Copyright |-> translate(m, lang, m.product.Copyright,
                                           "product.copyright")],
      Theme |-> m.theme,
      CustomCSS |-> CSS(m.customCSS),
      Body |-> [Name |-> body.Name,
                Greeting |-> translate(m, lang, body.Greeting, "greeting"),
                Signature |-> translate(m, lang, body.Signature, "signature"),
                Title |-> tr(body.Title),
                Intros |-> intros,
                Dictionary |-> dictionary,
                Table |-> [Data |-> tableData,
                           Columns |-> body.Table.Columns],
                Actions |-> actions,
                Outros |-> outros,
                Attachments |-> attachments]]

\* processTranslations that fills the intros from the last to the first
processTranslations_ReversedIntros(m, email, lang) ==
  LET body == email.Body
      tr(key) == translate(m, lang, key, "")
      intros == [i \in 1..Len(body.Intros) |->
                   tr(body.Intros[Len(body.Intros) + 1 - i])]
      outros == [i \in 1..Len(body.Outros) |-> tr(body.Outros[i])]
      dictionary ==
        [i \in 1..Len(body.Dictionary) |->
           [Key |-> tr(body.Dictionary[i].Key),
            Value |-> body.Dictionary[i].Value]]
      actions ==
        [i \in 1..Len(body.Actions) |->
           [Instructions |-> tr(body.Actions[i].Instructions),
            Button |-> [Text |-> tr(body.Actions[i].Button.Text),
                        Link |-> body.Actions[i].Button.Link,
                        Color |-> body.Actions[i].Button.Color],
            InvertedButton |-> body.Actions[i].InvertedButton]]
      tableData ==
        [i \in 1..Len(body.Table.Data) |->
           [j \in 1..Len(body.Table.Data[i]) |->
              [Key |-> tr(body.Table.Data[i][j].Key),
               Value |-> body.Table.Data[i][j].Value]]]
      attachments ==
        [i \in 1..Len(body.Attachments) |-> body.Attachments[i]]
  IN [Product |-> [Name |-> m.product.Name,
                   Link |-> m.product.Link,
                   Logo |-> m.product.Logo,
                   Copyright |-> translate(m, lang, m.product.Copyright,
                                           "product.copyright")],
      Theme |-> m.theme,
      CustomCSS |-> CSS(m.customCSS),
      Body |-> [Name |-> body.Name,
                Greeting |-> translate(m, lang, body.Greeting, "greeting"),
                Signature |-> translate(m, lang, body.Signature, "signature"),
                Title |-> tr(body.Title),
                Intros |-> intros,
                Dictionary |-> dictionary,
                Table |-> [Data |-> tableData,
                           Columns |-> body.Table.Columns],
                Actions |-> actions,
                Outros |-> outros,
                Attachments |-> attachments]]

\* processTranslations that hands the title over as trusted content
processTranslations_TrustedTitle(m, email, lang) ==
  LET body == email.Body
      tr(key) == translate(m, lang, key, "")
      intros == [i \in 1..Len(body.Intros) |-> tr(body.Intros[i])]
      outros == [i \in 1..Len(body.Outros) |-> tr(body.Outros[i])]
      dictionary ==
        [i \in 1..Len(body.Dictionary) |->
           [Key |-> tr(body.Dictionary[i].Key),
            Value |-> body.Dictionary[i].Value]]
      actions ==
        [i \in 1..Len(body.Actions) |->
           [Instructions |-> tr(body.Actions[i].Instructions),
            Button |-> [Text |-> tr(body.Actions[i].Button.Text),
                        Link |-> body.Actions[i].Button.Link,
                        Color |-> body.Actions[i].Button.Color],
            InvertedButton |-> body.Actions[i].InvertedButton]]
      tableData ==
        [i \in 1..Len(body.Table.Data) |->
           [j \in 1..Len(body.Table.Data[i]) |->
              [Key |-> tr(body.Table.Data[i][j].Key),
               Value |-> body.Table.Data[i][j].Value]]]
      attachments ==
        [i \in 1..Len(body.Attachments) |-> body.Attachments[i]]
  IN [Product |-> [Name |-> m.product.Name,
                   Link |-> m.product.Link,
                   Logo |-> m.product.Logo,
                   Copyright |-> translate(m, lang, m.product.Copyright,
                                           "product.copyright")],
      Theme |-> m.theme,
      CustomCSS |-> CSS(m.customCSS),
      Body |-> [Name |-> body.Name,
                Greeting |-> translate(m, lang, body.Greeting, "greeting"),
                Signature |-> translate(m, lang, body.Signature, "signature"),
                Title |-> CSS(tr(body.Title)),
                Intros |-> intros,
                Dictionary |-> dictionary,
                Table |-> [Data |-> tableData,
                           Columns |-> body.Table.Columns],
                Actions |-> actions,
                Outros |-> outros,
                Attachments |-> attachments]]

processTranslations(m, email, lang) ==
  LET body == email.Body
      tr(key) == translate(m, lang, key, "")
      intros == [i \in 1..Len(body.Intros) |-> tr(body.Intros[i])]
      outros == [i \in 1..Len(body.Outros) |-> tr(body.Outros[i])]
      dictionary ==
        [i \in 1..Len(body.Dictionary) |->
           [Key |-> tr(body.Dictionary[i].Key),
            Value |-> body.Dictionary[i].Value]]
      actions ==
        [i \in 1..Len(body.Actions) |->
           [Instructions |-> tr(body.Actions[i].Instructions),
            Button |-> [Text |-> tr(body.Actions[i].Button.Text),
                        Link |-> body.Actions[i].Button.Link,
                        Color |-> body.Actions[i].Button.Color],
            InvertedButton |-> body.Actions[i].InvertedButton]]
      tableData ==
        [i \in 1..Len(body.Table.Data) |->
           [j \in 1..Len(body.Table.Data[i]) |->
              [Key |-> tr(body.Table.Data[i][j].Key),
               Value |-> body.Table.Data[i][j].Value]]]
      attachments ==
        [i \in 1..Len(body.Attachments) |-> body.Attachments[i]]
  IN [Product |-> [Name |-> m.product.Name,
                   Link |-> m.product.Link,
                   Logo |-> m.product.Logo,
                   Copyright |-> translate(m, lang, m.product.Copyright,
                                           "product.copyright")],
      Theme |-> m.theme,
      CustomCSS |-> CSS(m.customCSS),
      Body |-> [Name |-> body.Name,
                Greeting |-> translate(m, lang, body.Greeting, "greeting"),
                Signature |-> translate(m, lang, body.Signature, "signature"),
                Title |-> tr(body.Title),
                Intros |-> intros,
                Dictionary |-> dictionary,
                Table |-> [Data |-> tableData,
                           Columns |-> body.Table.Columns],
                Actions |-> actions,
                Outros |-> outros,
                Attachments |-> attachments]]


\* the slices processTranslations assigns elements of: the ones it made
\* itself (make, part_000:335-383), by the names the code gives them
Assigned_CallersIntros ==
  {"body.Intros", "outros", "dictionary", "actions", "tableData",
   "attachments"}
Assigned ==
  {"intros", "outros", "dictionary", "actions", "tableData", "attachments"}
\* the caller's Email when processTranslations has run: a slice of the
\* Email holds the resolved elements where the code assigned them to it,
\* and its own elements where it did not; no other field is assigned
EmailAfter(m, email, lang) ==
  LET d == processTranslations(m, email, lang).Body
      now(slice, own, resolved) == IF slice \in Assigned THEN resolved ELSE own
  IN [email EXCEPT
        !.Body.Intros = now("body.Intros", @, d.Intros),
        !.Body.Outros = now("body.Outros", @, d.Outros),
        !.Body.Dictionary = now("body.Dictionary", @, d.Dictionary),
        !.Body.Actions = now("body.Actions", @, d.Actions),
        !.Body.Table.Data = now("body.Table.Data", @, d.Table.Data),
        !.Body.Attachments = now("body.Attachments", @, d.Attachments)]

(***************************************************************************)
(* Mailer.GenerateHTML (part_000:213-227): (document, error).              *)
(***************************************************************************)
\* GenerateHTML that drops Execute's error and returns what it has
GenerateHTML_Swallow(m, email, lang) ==
  LET data == processTranslations(m, email, lang)
  IN IF ExecuteFails(m.template, data)
     THEN [doc |-> <<>>, err |-> FALSE]
     ELSE [doc |-> Execute(m.template, data), err |-> FALSE]

GenerateHTML(m, email, lang) ==
  LET data == processTranslations(m, email, lang)
  IN IF ExecuteFails(m.template, data)
     THEN [doc |-> <<>>, err |-> TRUE]
     ELSE [doc |-> Execute(m.template, data), err |-> FALSE]

(***************************************************************************)
(* Mailer.GeneratePlainText (part_000:231-306): (document, error).         *)
(***************************************************************************)
\* the lines of s[1] \o s[2] \o ... \o s[n]
RECURSIVE Flatten(_, _)
Flatten(s, n) == IF n = 0 THEN <<>> ELSE Flatten(s, n - 1) \o s[n]

\* AttachmentLines that writes the separator whenever it writes parentheses
AttachmentLines_AlwaysSeparator(attachment) ==
  LET suffix == IF attachment.Type # "" \/ attachment.Size # ""
                THEN " (" \o attachment.Type \o ", " \o attachment.Size \o ")"
                ELSE ""
  IN <<"  - " \o attachment.Name \o suffix, "    " \o attachment.URL>>

\* part_000:278-292: one attachment, "  - name (type, size)\n    url\n"
AttachmentLines(attachment) ==
  LET typ == IF attachment.Type # "" THEN attachment.Type ELSE ""
      siz == IF attachment.Size # ""
             THEN (IF attachment.Type # "" THEN ", " ELSE "") \o attachment.Size
             ELSE ""
      suffix == IF attachment.Type # "" \/ attachment.Size # ""
                THEN " (" \o typ \o siz \o ")"
                ELSE ""
  IN <<"  - " \o attachment.Name \o suffix, "    " \o attachment.URL>>

\* PlainGreeting that resolves the greeting with the signature's default
PlainGreeting_SignatureDefault(m, email, lang) ==
  <<translate(m, lang, email.Body.Greeting, "signature") \o " "
      \o email.Body.Name \o ",", "">>

\* part_000:236-238: the greeting line and a blank line
PlainGreeting(m, email, lang) ==
  <<translate(m, lang, email.Body.Greeting, "greeting") \o " "
      \o email.Body.Name \o ",", "">>

\* part_000:240-244: the title and a blank line, for a non-empty Title
PlainTitle(m, email, lang) ==
  IF email.Body.Title # ""
  THEN <<translate(m, lang, email.Body.Title, ""), "">>
  ELSE <<>>

\* part_000:246-250: every intro and a blank line
PlainIntros(m, email, lang) ==
  Flatten([i \in 1..Len(email.Body.Intros) |->
             <<translate(m, lang, email.Body.Intros[i], ""), "">>],
          Len(email.Body.Intros))

\* PlainDictionary that puts a blank line after every entry
PlainDictionary_BlankAfterEach(m, email, lang) ==
  Flatten([i \in 1..Len(email.Body.Dictionary) |->
             <<translate(m, lang, email.Body.Dictionary[i].Key, "") \o ": "
                 \o email.Body.Dictionary[i].Value, "">>],
          Len(email.Body.Dictionary))

\* PlainDictionary that looks the value up as well
PlainDictionary_TranslatesValue(m, email, lang) ==
  Flatten([i \in 1..Len(email.Body.Dictionary) |->
             <<translate(m, lang, email.Body.Dictionary[i].Key, "") \o ": "
                 \o translate(m, lang, email.Body.Dictionary[i].Value, "")>>],
          Len(email.Body.Dictionary))
  \o (IF Len(email.Body.Dictionary) > 0 THEN <<"">> ELSE <<>>)

\* part_000:252-259: "key: value" per entry, then one blank line if any
PlainDictionary(m, email, lang) ==
  Flatten([i \in 1..Len(email.Body.Dictionary) |->
             <<translate(m, lang, email.Body.Dictionary[i].Key, "") \o ": "
                 \o email.Body.Dictionary[i].Value>>],
          Len(email.Body.Dictionary))
  \o (IF Len(email.Body.Dictionary) > 0 THEN <<"">> ELSE <<>>)

\* part_000:261-266: instructions, "text: link" and a blank line per action
PlainActions(m, email, lang) ==
  Flatten([i \in 1..Len(email.Body.Actions) |->
             <<translate(m, lang, email.Body.Actions[i].Instructions, ""),
               translate(m, lang, email.Body.Actions[i].Button.Text, "")
                 \o ": " \o email.Body.Actions[i].Button.Link,
               "">>],
          Len(email.Body.Actions))

\* part_000:268-272: every outro and a blank line
PlainOutros(m, email, lang) ==
  Flatten([i \in 1..Len(email.Body.Outros) |->
             <<translate(m, lang, email.Body.Outros[i], ""), "">>],
          Len(email.Body.Outros))

\* PlainAttachments that lists the transport attachments as well
PlainAttachments_WithSMTP(m, email, lang) ==
  IF Len(email.Body.Attachments) + Len(email.SMTPAttachments) > 0
  THEN <<"Attachments:">>
       \o Flatten([i \in 1..Len(email.Body.Attachments) |->
                     AttachmentLines(email.Body.Attachments[i])],
                  Len(email.Body.Attachments))
       \o [i \in 1..Len(email.SMTPAttachments) |->
             "  - " \o email.SMTPAttachments[i].Filename]
       \o <<"">>
  ELSE <<>>

\* PlainAttachments that stops after the first attachment
PlainAttachments_FirstOnly(m, email, lang) ==
  IF Len(email.Body.Attachments) > 0
  THEN <<"Attachments:">> \o AttachmentLines(email.Body.Attachments[1])
       \o <<"">>
  ELSE <<>>

\* part_000:274-295: the header, every attachment, one blank line
PlainAttachments(m, email, lang) ==
  IF Len(email.Body.Attachments) > 0
  THEN <<"Attachments:">>
       \o Flatten([i \in 1..Len(email.Body.Attachments) |->
                     AttachmentLines(email.Body.Attachments[i])],
                  Len(email.Body.Attachments))
       \o <<"">>
  ELSE <<>>

\* PlainSignature that resolves the signature with no default key
PlainSignature_NoDefault(m, email, lang) ==
  <<translate(m, lang, email.Body.Signature, "") \o ",", m.product.Name, "">>

\* part_000:297-299: "signature,", the product name and a blank line
PlainSignature(m, email, lang) ==
  <<translate(m, lang, email.Body.Signature, "signature") \o ",",
    m.product.Name, "">>

\* part_000:301-303: the copyright, with no newline after it
PlainCopyright(m, email, lang) ==
  <<translate(m, lang, m.product.Copyright, "product.copyright")>>

\* GeneratePlainText that writes the table's cells after the dictionary
GeneratePlainText_WithTable(m, email, lang) ==
  [doc |-> PlainGreeting(m, email, lang) \o PlainTitle(m, email, lang)
             \o PlainIntros(m, email, lang) \o PlainDictionary(m, email, lang)
             \o Flatten([i \in 1..Len(email.Body.Table.Data) |->
                           [j \in 1..Len(email.Body.Table.Data[i]) |->
                              email.Body.Table.Data[i][j].Key \o ": "
                                \o email.Body.Table.Data[i][j].Value]],
                        Len(email.Body.Table.Data))
             \o PlainActions(m, email, lang) \o PlainOutros(m, email, lang)
             \o PlainAttachments(m, email, lang)
             \o PlainSignature(m, email, lang)
             \o PlainCopyright(m, email, lang),
   err |-> FALSE]

\* GeneratePlainText that writes the outros before the actions
GeneratePlainText_OutrosFirst(m, email, lang) ==
  [doc |-> PlainGreeting(m, email, lang) \o PlainTitle(m, email, lang)
             \o PlainIntros(m, email, lang) \o PlainDictionary(m, email, lang)
             \o PlainOutros(m, email, lang) \o PlainActions(m, email, lang)
             \o PlainAttachments(m, email, lang)
             \o PlainSignature(m, email, lang)
             \o PlainCopyright(m, email, lang),
   err |-> FALSE]

\* GeneratePlainText that gives up on a message with nothing to say
GeneratePlainText_EmptyFails(m, email, lang) ==
  LET doc == PlainGreeting(m, email, lang) \o PlainTitle(m, email, lang)
               \o PlainIntros(m, email, lang)
               \o PlainDictionary(m, email, lang)
               \o PlainActions(m, email, lang) \o PlainOutros(m, email, lang)
               \o PlainAttachments(m, email, lang)
               \o PlainSignature(m, email, lang)
               \o PlainCopyright(m, email, lang)
  IN IF Len(doc) = 6 THEN [doc |-> <<>>, err |-> TRUE]
     ELSE [doc |-> doc, err |-> FALSE]

GeneratePlainText(m, email, lang) ==
  [doc |-> PlainGreeting(m, email, lang) \o PlainTitle(m, email, lang)
             \o PlainIntros(m, email, lang) \o PlainDictionary(m, email, lang)
             \o PlainActions(m, email, lang) \o PlainOutros(m, email, lang)
             \o PlainAttachments(m, email, lang)
             \o PlainSignature(m, email, lang)
             \o PlainCopyright(m, email, lang),
   err |-> FALSE]

(***************************************************************************)
(* Catalog loads (part_000:199-209).  A message file is its path, whether  *)
(* it can be read and parsed, the language its name carries and its        *)
(* messages (id, text), every text non-empty.                              *)
(***************************************************************************)
Msg(id, text) == [id |-> id, text |-> text]

MessageFiles ==
  { [path |-> "locales/en.json", status |-> "ok", tag |-> "en",
     messages |-> {Msg("greeting", "Hello"), Msg("signature", "Best regards"),
                   Msg("product.copyright", "(c) Acme, all rights reserved"),
                   Msg("x", "Hi"), Msg("", "Blank id"),
                   Msg("promo.title", EmptyRendering)}],
    [path |-> "locales/zh.json", status |-> "ok", tag |-> "zh",
     messages |-> {Msg("greeting", "Nin hao"), Msg("x", "Ni hao")}],
    \* redefines x with a text that does not parse, and adds y
    [path |-> "locales/extra.en.json", status |-> "ok", tag |-> "en",
     messages |-> {Msg("x", "Hi {{.Name"), Msg("y", "Why")}],
    [path |-> "locales/missing.json", status |-> "missing", tag |-> "",
     messages |-> {}],
    [path |-> "locales/fr.json", status |-> "malformed", tag |-> "fr",
     messages |-> {}] }

\* BundleLoad in which a file that cannot be loaded empties the catalog
BundleLoad_FailResets(bundle, file) ==
  IF file.status = "ok"
  THEN [bundle |-> AddMessages(bundle, file.tag, file.messages), err |-> FALSE]
  ELSE [bundle |-> NewBundle, err |-> TRUE]

\* Bundle.LoadMessageFile / LoadMessageFileFS: read, parse, AddMessages;
\* a file that cannot be read or parsed leaves the bundle as it was
BundleLoad(bundle, file) ==
  IF file.status = "ok"
  THEN [bundle |-> AddMessages(bundle, file.tag, file.messages), err |-> FALSE]
  ELSE [bundle |-> bundle, err |-> TRUE]

(***************************************************************************)
(* The inputs of the model.                                                *)
(***************************************************************************)
Langs == {"en", "zh", "zh-CN", "fr"}

Entry(k, v) == [Key |-> k, Value |-> v]
NoColumns == [CustomWidth |-> <<>>, CustomAlignment |-> <<>>]
SomeColumns == [CustomWidth |-> <<"x", "50%">>, CustomAlignment |-> <<"x", "right">>]

ZeroEmail ==
  [Body |-> [Name |-> "", Intros |-> <<>>, Dictionary |-> <<>>,
             Table |-> [Data |-> <<>>, Columns |-> NoColumns],
             Actions |-> <<>>, Outros |-> <<>>, Attachments |-> <<>>,
             Greeting |-> "", Signature |-> "", Title |-> ""],
   SMTPAttachments |-> <<>>]

IntroPool == <<"x", "Welcome aboard">>
OutroPool == <<"See you", "x">>
DictPool == <<Entry("x", "x"), Entry("User", "ann")>>
ActionPool ==
  << [Instructions |-> "x",
      Button |-> [Text |-> "y", Link |-> "https://acme.io/a", Color |-> ""],
      InvertedButton |-> FALSE],
     [Instructions |-> "Click below",
      Button |-> [Text |-> "Go", Link |-> "https://acme.io/b",
                  Color |-> "#FF0000"],
      InvertedButton |-> TRUE] >>
RowPool == << <<Entry("x", ""), Entry("Item", "")>>, <<Entry("", "1")>> >>
AttachmentPool ==
  << [Name |-> "a.pdf", URL |-> "https://acme.io/a.pdf",
      Size |-> "2.5 MB", Type |-> "PDF Document"],
     [Name |-> "b.txt", URL |-> "https://acme.io/b.txt",
      Size |-> "", Type |-> ""],
     [Name |-> "c.png", URL |-> "https://acme.io/c.png",
      Size |-> "1 MB", Type |-> ""],
     [Name |-> "d.csv", URL |-> "https://acme.io/d.csv",
      Size |-> "", Type |-> "CSV"] >>
SMTPPool ==
  << [Filename |-> "report.pdf", Content |-> "PDF content",
      ContentType |-> "application/pdf"],
     [Filename |-> "x", Content |-> "Hi", ContentType |-> "text/plain"] >>

\* the list of k elements that takes the pool's elements in turn, from
\* element first + 1 on
Cycle(pool, first, k) ==
  [i \in 1..k |-> pool[((i - 1 + first) % Len(pool)) + 1]]

\* the lists a field is given: of every length up to MaxItems, starting
\* at the pool's first, third, ... element
Lists(pool) ==
  {Cycle(pool, first, k) :
     first \in {f \in 0..(Len(pool) - 1) : f % 2 = 0}, k \in 0..MaxItems}

Named == [ZeroEmail EXCEPT !.Body.Name = "Ann"]

\* one message with one element of everything
Sample ==
  [Body |-> [Name |-> "Ann", Intros |-> <<"x">>,
             Dictionary |-> <<Entry("x", "x")>>,
             Table |-> [Data |-> <<<<Entry("x", "")>>, <<Entry("", "1")>>>>,
                        Columns |-> SomeColumns],
             Actions |-> <<[Instructions |-> "x",
                            Button |-> [Text |-> "y",
                                        Link |-> "https://acme.io/a",
                                        Color |-> "#FF0000"],
                            InvertedButton |-> TRUE]>>,
             Outros |-> <<"See you">>,
             Attachments |-> <<[Name |-> "a.pdf",
                                URL |-> "https://acme.io/a.pdf",
                                Size |-> "2.5 MB", Type |-> "PDF Document"]>>,
             Greeting |-> "greeting", Signature |-> "signature",
             Title |-> "x"],
   SMTPAttachments |-> <<[Filename |-> "report.pdf",
                          Content |-> "PDF content",
                          ContentType |-> "application/pdf"]>>]

\* a message whose literal fields all read like keys of the catalogs
Keyed ==
  [Body |-> [Name |-> "x", Intros |-> <<"x">>,
             Dictionary |-> <<Entry("y", "x"), Entry("x", "greeting")>>,
             Table |-> [Data |-> <<<<Entry("x", "y"), Entry("", "x")>>>>,
                        Columns |-> SomeColumns],
             Actions |-> <<[Instructions |-> "x",
                            Button |-> [Text |-> "y", Link |-> "x",
                                        Color |-> "signature"],
                            InvertedButton |-> TRUE]>>,
             Outros |-> <<>>,
             Attachments |-> <<[Name |-> "x", URL |-> "y",
                                Size |-> "greeting", Type |-> "x"]>>,
             Greeting |-> "", Signature |-> "", Title |-> ""],
   SMTPAttachments |-> <<>>]

\* a message whose translatable fields, but the greeting and the
\* signature, are all empty
Blank ==
  [Named EXCEPT
     !.Body.Intros = <<"">>, !.Body.Outros = <<"">>,
     !.Body.Dictionary = <<Entry("", "ann")>>,
     !.Body.Actions = <<[Instructions |-> "",
                         Button |-> [Text |-> "", Link |-> "https://acme.io/a",
                                     Color |-> ""],
                         InvertedButton |-> FALSE]>>,
     !.Body.Greeting = "Howdy", !.Body.Signature = "Cheers"]

\* the messages whose scalar fields vary
ScalarEmails ==
  { ZeroEmail, Named, Sample, Keyed, Blank,
    [Named EXCEPT !.Body.Greeting = "greeting"],
    [Named EXCEPT !.Body.Greeting = "Howdy", !.Body.Signature = "Cheers",
                  !.Body.Title = "x"],
    [Named EXCEPT !.Body.Signature = "signature",
                  !.Body.Title = "Quarterly report"],
    [Named EXCEPT !.Body.Title = "promo.title",
                  !.Body.Intros = <<"Welcome aboard">>],
    [Named EXCEPT !.Body.Greeting = "promo.title"] }

\* a message with repeated elements, elements out of alphabetical order
\* and table rows of different lengths
Repeated ==
  [Named EXCEPT
     !.Body.Intros = <<"x", "Welcome aboard", "x">>,
     !.Body.Dictionary = <<Entry("x", "1"), Entry("x", "1")>>,
     !.Body.Table.Data = RowPool,
     !.Body.Attachments = <<AttachmentPool[2], AttachmentPool[1],
                            AttachmentPool[2]>>]

\* the messages in which one list varies
ListEmails ==
  { Repeated } \cup
  { [Named EXCEPT !.Body.Intros = q] : q \in Lists(IntroPool) }
  \cup { [Named EXCEPT !.Body.Outros = q] : q \in Lists(OutroPool) }
  \cup { [Named EXCEPT !.Body.Dictionary = q] : q \in Lists(DictPool) }
  \cup { [Named EXCEPT !.Body.Actions = q] : q \in Lists(ActionPool) }
  \cup { [Named EXCEPT !.Body.Table.Data = q, !.Body.Table.Columns = SomeColumns] :
           q \in Lists(RowPool) }
  \cup { [Named EXCEPT !.Body.Attachments = q] : q \in Lists(AttachmentPool) }
  \cup { [Sample EXCEPT !.SMTPAttachments = q] : q \in Lists(SMTPPool) }

Emails == ScalarEmails \cup ListEmails

\* the (message, language) pairs rendered: the scalar messages in every
\* language, the list messages in the language whose catalog is partial
Renders ==
  (ScalarEmails \X Langs) \cup (ListEmails \X {"zh"})

Acme ==
  [Name |-> "Acme", Link |-> "https://acme.io",
   Logo |-> "https://acme.io/logo.png", Copyright |-> ""]
AcmeLiteral == [Acme EXCEPT !.Copyright = "(c) 2025 Acme Inc."]
\* a product whose name, link and logo read like keys of the catalogs
KeyedProduct ==
  [Name |-> "x", Link |-> "greeting", Logo |-> "signature", Copyright |-> ""]

\* the calls of New the model starts from: <<product, theme, config>>
Constructions ==
  { <<Acme, DefaultTheme, ZeroConfig>>,
    <<AcmeLiteral, FlatTheme,
      WithCustomTemplateString(
        WithCustomCSS(ZeroConfig, ".email-title { font-size: 28px; }"),
        TplFirstIntro)>>,
    <<AcmeLiteral, DefaultTheme,
      WithCustomTemplate(ZeroConfig, Parse(TplBadField))>>,
    <<KeyedProduct, DefaultTheme,
      WithCustomTemplateFile(ZeroConfig, CustomFS, "templates/custom.html")>>,
    <<Acme, DefaultTheme, WithCustomTemplateString(ZeroConfig, TplUnclosed)>>,
    <<Acme, DefaultTheme,
      WithCustomTemplateFile(ZeroConfig, CustomFS, "templates/broken.html")>>,
    <<Acme, DefaultTheme,
      WithCustomTemplateFile(ZeroConfig, CustomFS, "templates/none.html")>>,
    \* a template that was never parsed, given as the parsed template
    <<Acme, DefaultTheme, WithCustomTemplate(ZeroConfig, UnparsedTemplate)>>,
    \* several template options at once
    <<KeyedProduct, DefaultTheme,
      WithCustomTemplateFile(
        WithCustomTemplateString(
          WithCustomTemplate(ZeroConfig, Parse(TplMinimal)), TplUnclosed),
        CustomFS, "templates/broken.html")>>,
    <<AcmeLiteral, FlatTheme,
      WithCustomTemplateFile(
        WithCustomTemplateString(
          WithCustomCSS(ZeroConfig, ".email-title { font-size: 28px; }"),
          TplFirstIntro),
        CustomFS, "templates/none.html")>>,
    \* options that supply nothing: a nil template, an empty string, an
    \* empty path, a nil filesystem
    <<KeyedProduct, DefaultTheme,
      WithCustomTemplateFile(
        WithCustomTemplateString(
          WithCustomTemplate(ZeroConfig, NilTemplate), ""),
        CustomFS, "templates/custom.html")>>,
    <<Acme, DefaultTheme, WithCustomTemplateFile(ZeroConfig, CustomFS, "")>>,
    <<Acme, DefaultTheme,
      WithCustomTemplateFile(ZeroConfig, NoFS, "templates/custom.html")>> }

(***************************************************************************)
(* The state machine: a Mailer is built once, then catalogs are loaded and *)
(* messages rendered in any order.  call is the last call and its          *)
(* arguments (config: the options New applied; after: the caller's Email   *)
(* when the call has returned), ret what it returned.                      *)
(***************************************************************************)
NoDoc == <<>>

\* the goroutines that render concurrently (the concurrent specification)
Renderers == {"r1", "r2"}
\* a goroutine that is in no call of the Mailer.  versions, overlapped and
\* together record what a call met: the complete catalogs that existed
\* during it (the one it began with, or the one before the load it began
\* in, and the one after each load that returned), whether a load was in
\* progress during it, whether another render was
IdleRender ==
  [state |-> "idle", calls |-> 0, op |-> "", email |-> ZeroEmail,
   lang |-> "", pc |-> 1,
   parts |-> <<>>, doc |-> NoDoc, err |-> FALSE,
   versions |-> {}, overlapped |-> FALSE,
   together |-> FALSE]
\* the loading goroutine, in no call
IdleLoad ==
  [state |-> "idle", calls |-> 0, path |-> "", tag |-> "", left |-> {},
   tagged |-> FALSE,
   before |-> NewBundle, err |-> FALSE]
\* the goroutines of the concurrent specification and the runtime's fatal
\* error; the calls of Spec are made one after the other and leave them
concurrent == <<goroutines, loader, fatal>>

Init ==
  \E c \in Constructions :
     LET r == New(c[1], c[2], c[3])
     IN /\ constructed = ~r.panic
        /\ mailer = r.mailer
        /\ call = [op |-> "New", email |-> ZeroEmail, after |-> ZeroEmail,
                  lang |-> "", path |-> "",
                  config |-> c[3]]
        /\ ret = [html |-> NoDoc, text |-> NoDoc, err |-> r.panic]
        /\ goroutines = [g \in Renderers |-> IdleRender]
        /\ loader = IdleLoad
        /\ fatal = FALSE

LoadMessageFile(file) ==
  /\ constructed
  /\ mailer' = [mailer EXCEPT !.bundle = BundleLoad(mailer.bundle, file).bundle]
  /\ call' = [op |-> "LoadMessageFile", email |-> ZeroEmail,
              after |-> ZeroEmail, lang |-> "",
              path |-> file.path, config |-> ZeroConfig]
  /\ ret' = [html |-> NoDoc, text |-> NoDoc,
             err |-> BundleLoad(mailer.bundle, file).err]
  /\ UNCHANGED <<constructed, concurrent>>

LoadMessageFileFS(file) ==
  /\ constructed
  /\ mailer' = [mailer EXCEPT !.bundle = BundleLoad(mailer.bundle, file).bundle]
  /\ call' = [op |-> "LoadMessageFileFS", email |-> ZeroEmail,
              after |-> ZeroEmail, lang |-> "",
              path |-> file.path, config |-> ZeroConfig]
  /\ ret' = [html |-> NoDoc, text |-> NoDoc,
             err |-> BundleLoad(mailer.bundle, file).err]
  /\ UNCHANGED <<constructed, concurrent>>

\* a GenerateHTML that keeps the resolved copyright in the Mailer's product
CallGenerateHTML_KeepsCopyright(email, lang) ==
  LET r == GenerateHTML(mailer, email, lang)
  IN /\ constructed
     /\ call' = [op |-> "GenerateHTML", email |-> email,
                 after |-> EmailAfter(mailer, email, lang), lang |-> lang,
                 path |-> "", config |-> ZeroConfig]
     /\ ret' = [html |-> r.doc, text |-> NoDoc, err |-> r.err]
     /\ mailer' = [mailer EXCEPT !.product.Copyright =
                     translate(mailer, lang, @, "product.copyright")]
     /\ UNCHANGED <<constructed, concurrent>>

CallGenerateHTML(email, lang) ==
  LET r == GenerateHTML(mailer, email, lang)
  IN /\ constructed
     /\ call' = [op |-> "GenerateHTML", email |-> email,
                 after |-> EmailAfter(mailer, email, lang), lang |-> lang,
                 path |-> "", config |-> ZeroConfig]
     /\ ret' = [html |-> r.doc, text |-> NoDoc, err |-> r.err]
     /\ UNCHANGED <<constructed, mailer, concurrent>>

CallGeneratePlainText(email, lang) ==
  LET r == GeneratePlainText(mailer, email, lang)
  IN /\ constructed
     /\ call' = [op |-> "GeneratePlainText", email |-> email,
                 after |-> email, lang |-> lang,
                 path |-> "", config |-> ZeroConfig]
     /\ ret' = [html |-> NoDoc, text |-> r.doc, err |-> r.err]
     /\ UNCHANGED <<constructed, mailer, concurrent>>

Next ==
  \/ \E file \in MessageFiles : LoadMessageFile(file)
  \/ \E file \in MessageFiles : LoadMessageFileFS(file)
  \/ \E r \in Renders : CallGenerateHTML(r[1], r[2])
  \/ \E r \in Renders : CallGeneratePlainText(r[1], r[2])

Spec == Init /\ [][Next]_vars

(***************************************************************************)
(* Concurrent use.  The Mailer holds no lock (part_000:20-26) and its      *)
(* methods call the bundle directly (199-209, 311-328), so calls made from *)
(* several goroutines interleave at their accesses to the bundle: a render *)
(* looks its fields up one list after the other, in the order of the code, *)
(* and a load registers the file's language and then stores the file's     *)
(* messages one by one.                                                    *)
(***************************************************************************)
\* the message and locale the concurrent renders are called with: the
\* greeting, the signature and the copyright are left to their default
\* keys, the title is a key of the catalogs
Titled == [Named EXCEPT !.Body.Title = "x"]
ConcRenders == {<<Titled, "zh">>}
\* the files the concurrent loads are called with
ConcFiles ==
  {f \in MessageFiles : f.path \in {"locales/zh.json", "locales/missing.json"}}

\* processTranslations' lookups, in the order of the code (part_000:335-400)
ContextParts ==
  <<"Intros", "Outros", "Dictionary", "Actions", "Table", "Copyright",
    "Greeting", "Signature", "Title">>
\* the part of a context a group of lookups resolved
Part(name, d) ==
  CASE name = "Intros" -> d.Body.Intros
    [] name = "Outros" -> d.Body.Outros
    [] name = "Dictionary" -> d.Body.Dictionary
    [] name = "Actions" -> d.Body.Actions
    [] name = "Table" -> d.Body.Table.Data
    [] name = "Copyright" -> d.Product.Copyright
    [] name = "Greeting" -> d.Body.Greeting
    [] name = "Signature" -> d.Body.Signature
    [] name = "Title" -> d.Body.Title
\* the context returned: the parts as they were resolved, around them the
\* values that are not looked up
Assemble(d, parts) ==
  [d EXCEPT !.Body.Intros = parts[1], !.Body.Outros = parts[2],
            !.Body.Dictionary = parts[3], !.Body.Actions = parts[4],
            !.Body.Table.Data = parts[5], !.Product.Copyright = parts[6],
            !.Body.Greeting = parts[7], !.Body.Signature = parts[8],
            !.Body.Title = parts[9]]

\* GeneratePlainText's sections, in the order of the code (part_000:237-303)
Sections ==
  <<"Greeting", "Title", "Intros", "Dictionary", "Actions", "Outros",
    "Attachments", "Signature", "Copyright">>
\* the lines a section writes to the buffer
Section(name, m, email, lang) ==
  CASE name = "Greeting" -> PlainGreeting(m, email, lang)
    [] name = "Title" -> PlainTitle(m, email, lang)
    [] name = "Intros" -> PlainIntros(m, email, lang)
    [] name = "Dictionary" -> PlainDictionary(m, email, lang)
    [] name = "Actions" -> PlainActions(m, email, lang)
    [] name = "Outros" -> PlainOutros(m, email, lang)
    [] name = "Attachments" -> PlainAttachments(m, email, lang)
    [] name = "Signature" -> PlainSignature(m, email, lang)
    [] name = "Copyright" -> PlainCopyright(m, email, lang)

\* whether a part of the context or a section of the text looks anything
\* up for this message: a list does for each of its elements, the title
\* if there is one, the attachments never
HasLookups(name, email) ==
  CASE name = "Intros" -> email.Body.Intros # <<>>
    [] name = "Outros" -> email.Body.Outros # <<>>
    [] name = "Dictionary" -> email.Body.Dictionary # <<>>
    [] name = "Actions" -> email.Body.Actions # <<>>
    [] name = "Table" -> email.Body.Table.Data # <<>>
    [] name = "Title" -> email.Body.Title # ""
    [] name = "Attachments" -> FALSE
    [] OTHER -> TRUE
\* a step of a render runs from its place pc up to its next lookups and
\* through them: what it does before them touches nothing shared
StepEnd(names, email, pc) ==
  CHOOSE j \in pc..Len(names) :
     /\ HasLookups(names[j], email) \/ j = Len(names)
     /\ \A i \in pc..(j - 1) : ~HasLookups(names[i], email)

\* every call that is running has met the load and the renders that are
\* running with it
Seen(gs, ld) ==
  [g \in Renderers |->
     IF gs[g].state = "running"
     THEN [gs[g] EXCEPT
             !.overlapped = @ \/ ld.state # "idle",
             !.together = @ \/ \E h \in Renderers \ {g} :
                                  gs[h].state = "running"]
     ELSE gs[g]]

\* one Mailer, built with the defaults, its English catalog loaded, and no
\* call in progress
ConcInit ==
  LET r == New(Acme, DefaultTheme, ZeroConfig)
      en == CHOOSE f \in MessageFiles : f.path = "locales/en.json"
  IN /\ constructed = TRUE
     /\ mailer = [r.mailer EXCEPT !.bundle = BundleLoad(@, en).bundle]
     /\ call = [op |-> "New", email |-> ZeroEmail, after |-> ZeroEmail,
                  lang |-> "", path |-> "",
                config |-> ZeroConfig]
     /\ ret = [html |-> NoDoc, text |-> NoDoc, err |-> FALSE]
     /\ goroutines = [g \in Renderers |-> IdleRender]
     /\ loader = IdleLoad
     /\ fatal = FALSE

\* a goroutine calls GenerateHTML or GeneratePlainText
StartRender(g, op, email, lang) ==
  /\ ~fatal
  /\ goroutines[g].state # "running"
  /\ goroutines[g].calls < MaxCalls
  /\ goroutines' =
       Seen([goroutines EXCEPT
               ![g] = [IdleRender EXCEPT
                         !.state = "running", !.op = op, !.email = email,
                         !.calls = goroutines[g].calls + 1,
                         !.lang = lang,
                         !.versions = {IF loader.state = "write"
                                       THEN loader.before
                                       ELSE mailer.bundle}]],
            loader)
  /\ UNCHANGED <<constructed, mailer, call, ret, loader, fatal>>

\* processTranslations resolves the next lists and fields of the context
\* against the bundle as it is now; after the last, GenerateHTML executes
\* the template on the context and returns
RenderHTMLStep(g) ==
  LET r == goroutines[g]
      j == StepEnd(ContextParts, r.email, r.pc)
      d == processTranslations(mailer, r.email, r.lang)
      parts == r.parts \o [i \in 1..(j + 1 - r.pc) |->
                             Part(ContextParts[r.pc + i - 1], d)]
      data == Assemble(d, parts)
  IN /\ ~fatal
     /\ r.state = "running" /\ r.op = "GenerateHTML"
     /\ goroutines' =
          IF j < Len(ContextParts)
          THEN [goroutines EXCEPT ![g].parts = parts, ![g].pc = j + 1]
          ELSE [goroutines EXCEPT
                  ![g].state = "done", ![g].parts = <<>>, ![g].pc = j + 1,
                  ![g].doc = IF ExecuteFails(mailer.template, data) THEN NoDoc
                             ELSE Execute(mailer.template, data),
                  ![g].err = ExecuteFails(mailer.template, data)]
     /\ UNCHANGED <<constructed, mailer, call, ret, loader, fatal>>

\* GeneratePlainText that registers the language it renders in with the
\* bundle
RenderTextStep_RegistersTag(g) ==
  LET r == goroutines[g]
      j == StepEnd(Sections, r.email, r.pc)
      written == [i \in 1..(j + 1 - r.pc) |->
                    Section(Sections[r.pc + i - 1], mailer, r.email, r.lang)]
  IN /\ ~fatal
     /\ r.state = "running" /\ r.op = "GeneratePlainText"
     /\ goroutines' =
          [goroutines EXCEPT
             ![g].doc = @ \o Flatten(written, Len(written)),
             ![g].pc = j + 1,
             ![g].state = IF j = Len(Sections) THEN "done" ELSE @]
     /\ mailer' = [mailer EXCEPT !.bundle = AddMessages(@, r.lang, {})]
     /\ UNCHANGED <<constructed, call, ret, loader, fatal>>

\* GeneratePlainText writes its next section, resolved against the bundle
\* as it is now, and returns after the last
RenderTextStep(g) ==
  LET r == goroutines[g]
      j == StepEnd(Sections, r.email, r.pc)
      written == [i \in 1..(j + 1 - r.pc) |->
                    Section(Sections[r.pc + i - 1], mailer, r.email, r.lang)]
  IN /\ ~fatal
     /\ r.state = "running" /\ r.op = "GeneratePlainText"
     /\ goroutines' =
          [goroutines EXCEPT
             ![g].doc = @ \o Flatten(written, Len(written)),
             ![g].pc = j + 1,
             ![g].state = IF j = Len(Sections) THEN "done" ELSE @]
     /\ UNCHANGED <<constructed, mailer, call, ret, loader, fatal>>

\* the loading goroutine calls LoadMessageFile
LoadStart(file) ==
  /\ ~fatal
  /\ loader.state = "idle"
  /\ loader.calls < MaxCalls
  /\ loader' = [IdleLoad EXCEPT !.state = "parse", !.path = file.path,
                               !.calls = loader.calls + 1]
  /\ goroutines' = Seen(goroutines, loader')
  /\ UNCHANGED <<constructed, mailer, call, ret, fatal>>

\* Bundle.LoadMessageFile reads and parses the file: a file that cannot be
\* read or parsed returns the error, the bundle untouched
LoadParse ==
  LET file == CHOOSE f \in MessageFiles : f.path = loader.path
  IN /\ ~fatal
     /\ loader.state = "parse"
     /\ loader' =
          IF file.status = "ok"
          THEN [loader EXCEPT !.state = "write", !.tag = file.tag,
                              !.left = file.messages,
                              !.before = mailer.bundle]
          ELSE [IdleLoad EXCEPT !.err = TRUE, !.calls = loader.calls]
     /\ UNCHANGED <<constructed, mailer, call, ret, goroutines, fatal>>

\* Bundle.AddMessages writes: first the language's tag, then one message
\* after the other; after the last the load returns, and the catalog is a
\* complete one again
LoadWrite ==
  /\ ~fatal
  /\ loader.state = "write"
  /\ \E msg \in loader.left :
       LET s == IF loader.tagged THEN {msg} ELSE {}
           left == loader.left \ s
       IN /\ mailer' = [mailer EXCEPT
                          !.bundle = AddMessages(@, loader.tag, s)]
          /\ loader' = IF left = {}
                       THEN [IdleLoad EXCEPT !.calls = loader.calls]
                       ELSE [loader EXCEPT !.tagged = TRUE, !.left = left]
          /\ goroutines' =
               [g \in Renderers |->
                  IF left = {} /\ goroutines[g].state = "running"
                  THEN [goroutines[g] EXCEPT
                          !.versions = @ \cup {mailer'.bundle}]
                  ELSE goroutines[g]]
  /\ UNCHANGED <<constructed, call, ret, fatal>>

\* a lookup reads the bundle's maps while AddMessages writes them: the Go
\* runtime may end the process ("concurrent map read and map write"), and
\* with it every goroutine
Fatal ==
  /\ ~fatal
  /\ loader.state = "write"
  /\ \E g \in Renderers :
       goroutines[g].state = "running"
  /\ fatal' = TRUE
  /\ goroutines' = [g \in Renderers |-> IdleRender]
  /\ loader' = IdleLoad
  /\ UNCHANGED <<constructed, mailer, call, ret>>

ConcNext ==
  \/ \E g \in Renderers, r \in ConcRenders :
       StartRender(g, "GenerateHTML", r[1], r[2])
  \/ \E g \in Renderers, r \in ConcRenders :
       StartRender(g, "GeneratePlainText", r[1], r[2])
  \/ \E g \in Renderers : RenderHTMLStep(g)
  \/ \E g \in Renderers : RenderTextStep(g)
  \/ \E file \in ConcFiles : LoadStart(file)
  \/ LoadParse
  \/ LoadWrite
  \/ Fatal

ConcSpec == ConcInit /\ [][ConcNext]_vars

(***************************************************************************)
(* Properties.                                                             *)
(***************************************************************************)
\* the non-empty keys looked up
Keys ==
  {"greeting", "signature", "product.copyright", "x", "y", "Howdy",
   "Welcome aboard", "promo.title"}

\* the catalog the bundle selects for lang has no message k
Miss(lang, k) ==
  ~HasTemplate(mailer.bundle, Match(mailer.bundle, lang), k)

\* the catalog the bundle selects for lang has a message k whose text parses
Hit(lang, k) ==
  /\ HasTemplate(mailer.bundle, Match(mailer.bundle, lang), k)
  /\ ~Unparsable(Text(mailer.bundle, Match(mailer.bundle, lang), k))

HitText(lang, k) ==
  Executed(Text(mailer.bundle, Match(mailer.bundle, lang), k))

RenderedText == constructed /\ call.op = "GeneratePlainText"
RenderedHTML == constructed /\ call.op = "GenerateHTML" /\ ~ret.err

C3_LocaleSelection ==
  /\ constructed =>
       \A l \in Langs, k \in Keys :
          HasTemplate(mailer.bundle, l, k) =>
             translate(mailer, l, k, "") =
               IF Unparsable(Text(mailer.bundle, l, k)) THEN k
               ELSE Executed(Text(mailer.bundle, l, k))
  /\ (/\ constructed
      /\ call.email = Sample
      /\ HasTemplate(mailer.bundle, "en", "x")
      /\ Text(mailer.bundle, "en", "x") = "Hi"
      /\ HasTemplate(mailer.bundle, "zh", "x")
      /\ call.lang \in {"en", "zh"})
       => /\ call.op = "GeneratePlainText" =>
               ret.text[5] = (IF call.lang = "en" THEN "Hi" ELSE "Ni hao")
          /\ (call.op = "GenerateHTML" /\ ~ret.err) =>
               ret.html[2].Body.Intros[1] =
                 (IF call.lang = "en" THEN "Hi" ELSE "Ni hao")

\* C3 witness: with both catalogs loaded, the intro x was rendered under
\* "zh" as the Chinese text
C3_Witness ==
  /\ RenderedHTML
  /\ call.email = Sample /\ call.lang = "zh"
  /\ HasTemplate(mailer.bundle, "en", "x")
  /\ Text(mailer.bundle, "en", "x") = "Hi"
  /\ ret.html[2].Body.Intros[1] = "Ni hao"

\* a lookup of k under language l resolves to catalog text
Resolves(bundle, l, k) == ~Localize(bundle, l, k).err

Loads == {"LoadMessageFile", "LoadMessageFileFS"}

\* the step is a successful load that redefines entry e of its own
\* language with a text that does not parse
Redefined(e) ==
  /\ call'.op \in Loads
  /\ \E f \in MessageFiles :
        /\ f.path = call'.path /\ f.status = "ok" /\ f.tag = e.tag
        /\ \E msg \in f.messages : msg.id = e.id /\ Unparsable(msg.text)

\* the step is a load of a file of another language than entry e's
OtherLanguageLoad(e) ==
  /\ call'.op \in Loads
  /\ \E f \in MessageFiles : f.path = call'.path /\ f.tag # e.tag

\* C4 as stated: across every step, every (language, key) entry of the
\* catalog that resolved to catalog text still resolves to catalog text
\* for that language, and a load for one language leaves the entries of
\* the other languages in place.
C4_Original ==
  [][\A e \in mailer.bundle.messageTemplates :
        /\ Resolves(mailer.bundle, e.tag, e.id)
             => Resolves(mailer'.bundle, e.tag, e.id)
        /\ OtherLanguageLoad(e) => e \in mailer'.bundle.messageTemplates]_vars

\* C4, amended: catalog accumulation.  Across every step, every (language,
\* key) entry that resolved to catalog text still resolves to catalog text
\* for that language unless the step is a load for that same language
\* that redefines the key with a text the catalog cannot render; a load
\* for one language never removes or changes an entry of another language.
C4_CatalogAccumulation ==
  [][\A e \in mailer.bundle.messageTemplates :
        /\ (Resolves(mailer.bundle, e.tag, e.id) /\ ~Redefined(e))
             => Resolves(mailer'.bundle, e.tag, e.id)
        /\ OtherLanguageLoad(e) => e \in mailer'.bundle.messageTemplates]_vars

\* C4 witness: the Chinese catalog was loaded after the English one and
\* the English entry is still there, beside the Chinese one
C4_Witness ==
  /\ constructed
  /\ call.op \in Loads /\ call.path = "locales/zh.json" /\ ~ret.err
  /\ [tag |-> "en", id |-> "x", text |-> "Hi"] \in mailer.bundle.messageTemplates
  /\ [tag |-> "zh", id |-> "x", text |-> "Ni hao"] \in mailer.bundle.messageTemplates
  /\ Resolves(mailer.bundle, "en", "x") /\ Resolves(mailer.bundle, "zh", "x")

\* no catalog was loaded for language l
Unloaded(l) == \A e \in mailer.bundle.messageTemplates : e.tag # l

\* the literal form of a field: the key, or the default key when empty
Literal(key, defaultKey) == IF key = "" THEN defaultKey ELSE key

\* the templates of the model that execute on every context
AlwaysExecutes(tmpl) == tmpl.src \in {DefaultHTML, TplMinimal}

Serving(l) ==
  IF \E i \in 1..Len(mailer.bundle.tags) : mailer.bundle.tags[i] = Base(l)
  THEN Base(l) ELSE English

\* what a field resolves to under an unloaded language l: the serving
\* catalog's text if it has a renderable one, else the literal form
Served(l, key, defaultKey) ==
  LET k == Literal(key, defaultKey)
      own == {e \in mailer.bundle.messageTemplates :
                e.tag = Serving(l) /\ e.id = k /\ ~Unparsable(e.text)}
  IN IF k = "" \/ own = {} THEN k
     ELSE Executed((CHOOSE e \in own : TRUE).text)

TextOf(d, titled) ==
  <<d.Body.Greeting \o " " \o d.Body.Name \o ",", "">>
  \o (IF titled THEN <<d.Body.Title, "">> ELSE <<>>)
  \o Flatten([i \in 1..Len(d.Body.Intros) |-> <<d.Body.Intros[i], "">>],
             Len(d.Body.Intros))
  \o Flatten([i \in 1..Len(d.Body.Dictionary) |->
                <<d.Body.Dictionary[i].Key \o ": "
                    \o d.Body.Dictionary[i].Value>>],
             Len(d.Body.Dictionary))
  \o (IF Len(d.Body.Dictionary) > 0 THEN <<"">> ELSE <<>>)
  \o Flatten([i \in 1..Len(d.Body.Actions) |->
                <<d.Body.Actions[i].Instructions,
                  d.Body.Actions[i].Button.Text \o ": "
                    \o d.Body.Actions[i].Button.Link,
                  "">>],
             Len(d.Body.Actions))
  \o Flatten([i \in 1..Len(d.Body.Outros) |-> <<d.Body.Outros[i], "">>],
             Len(d.Body.Outros))
  \o (IF Len(d.Body.Attachments) > 0
      THEN <<"Attachments:">>
           \o Flatten([i \in 1..Len(d.Body.Attachments) |->
                         AttachmentLines(d.Body.Attachments[i])],
                      Len(d.Body.Attachments))
           \o <<"">>
      ELSE <<>>)
  \o <<d.Body.Signature \o ",", d.Product.Name, "", d.Product.Copyright>>

\* C6: cross-format consistency.  For every Mailer state, message and
\* language, the string GeneratePlainText emits for each shared field
\* (greeting, title, intros, dictionary keys, action instructions and
\* button texts, outros, signature, copyright) is the string
\* processTranslations puts in the HTML template context for that field:
\* the text document is the plain layout of the HTML context.
C6_CrossFormatConsistency ==
  /\ RenderedText =>
       ret.text = TextOf(processTranslations(mailer, call.email, call.lang),
                         call.email.Body.Title # "")
  /\ RenderedHTML =>
       GeneratePlainText(mailer, call.email, call.lang).doc
         = TextOf(ret.html[2], call.email.Body.Title # "")

\* C6 witness: the message with every field was rendered as text under
\* "zh" with both catalogs loaded, some fields translated, some literal
C6_Witness ==
  /\ RenderedText
  /\ call.email = Sample /\ call.lang = "zh"
  /\ HasTemplate(mailer.bundle, "zh", "x")
  /\ HasTemplate(mailer.bundle, "en", "signature")
  /\ ret.text[1] = "Nin hao Ann,"
  /\ ret.text[Len(ret.text) - 3] = "signature,"

\* C7: transport attachments are invisible to both serializers.  Replacing
\* the SMTPAttachments of the rendered Email by any other list, the Body
\* unchanged, gives the same HTML result and the same text document.
C7_TransportInvisible ==
  (constructed /\ call.op \in {"GenerateHTML", "GeneratePlainText"}) =>
    \A q \in Lists(SMTPPool) :
       LET other == [call.email EXCEPT !.SMTPAttachments = q]
       IN /\ call.op = "GeneratePlainText" =>
               GeneratePlainText(mailer, other, call.lang).doc = ret.text
          /\ call.op = "GenerateHTML" =>
               /\ GenerateHTML(mailer, other, call.lang).doc = ret.html
               /\ GenerateHTML(mailer, other, call.lang).err = ret.err

\* C7 witness: a message carrying two transport attachments was rendered
\* to the text its Body alone gives
C7_Witness ==
  /\ RenderedText
  /\ Len(call.email.SMTPAttachments) = 2
  /\ call.email.SMTPAttachments[1].Filename = "report.pdf"
  /\ ret.text =
       GeneratePlainText(mailer, [call.email EXCEPT !.SMTPAttachments = <<>>],
                         call.lang).doc

\* the line of attachment a: its name, then its type and size if given
AttachmentLine(a) ==
  "  - " \o a.Name \o
    (IF a.Type # "" /\ a.Size # "" THEN " (" \o a.Type \o ", " \o a.Size \o ")"
     ELSE IF a.Type # "" THEN " (" \o a.Type \o ")"
     ELSE IF a.Size # "" THEN " (" \o a.Size \o ")"
     ELSE "")

\* C8: display attachments appear in both outputs.  For a message with
\* attachments, the HTML context holds the same attachment list, and the
\* text has, before the signature block, the "Attachments:" header and,
\* per attachment in list order, its line (name, type, size) and its URL.
C8_DisplayAttachments ==
  /\ RenderedHTML =>
       ret.html[2].Body.Attachments = call.email.Body.Attachments
  /\ (RenderedText /\ Len(call.email.Body.Attachments) > 0) =>
       LET atts == call.email.Body.Attachments
           n == Len(atts)
           h == Len(ret.text) - 2 * n - 5
       IN /\ h >= 3
          /\ ret.text[h] = "Attachments:"
          /\ \A i \in 1..n :
               /\ ret.text[h + 2 * i - 1] = AttachmentLine(atts[i])
               /\ ret.text[h + 2 * i] = "    " \o atts[i].URL
          /\ ret.text[h + 2 * n + 1] = ""

\* C8 witness: a message with two attachments was rendered as text
C8_Witness ==
  /\ RenderedText
  /\ Len(call.email.Body.Attachments) = 2
  /\ ret.text[3] = "Attachments:"
  /\ ret.text[4] = "  - a.pdf (PDF Document, 2.5 MB)"
  /\ ret.text[7] = "    https://acme.io/b.txt"

\* the message has no title, intros, dictionary, actions, outros or
\* attachments
EmptyBody(email) ==
  /\ email.Body.Title = "" /\ email.Body.Intros = <<>>
  /\ email.Body.Dictionary = <<>> /\ email.Body.Actions = <<>>
  /\ email.Body.Outros = <<>> /\ email.Body.Attachments = <<>>

\* C9: plain-text rendering never fails.  GeneratePlainText returns no
\* error for every message, language and catalog; every document starts
\* with the greeting line and carries the signature block before the
\* copyright, and for an empty body it is exactly these lines.
C9_PlainTextNeverFails ==
  RenderedText =>
    LET body == call.email.Body
        n == Len(ret.text)
    IN /\ ~ret.err
       /\ n >= 6
       /\ ret.text[1] = translate(mailer, call.lang, body.Greeting, "greeting")
                          \o " " \o body.Name \o ","
       /\ ret.text[n - 3] =
            translate(mailer, call.lang, body.Signature, "signature") \o ","
       /\ ret.text[n - 2] = mailer.product.Name
       /\ EmptyBody(call.email) => n = 6 /\ ret.text[2] = ""

\* C9 witness: an empty message was rendered with no catalog loaded
C9_Witness ==
  /\ RenderedText
  /\ call.email = Named
  /\ ~ret.err
  /\ ret.text = <<"greeting Ann,", "", "signature,", "Acme", "",
                  "product.copyright">>

\* C10 as stated: GenerateHTML returns an error exactly when the
\* template's execution fails, then with the empty document; a translation
\* miss never causes an error, and neither does an empty body: a Mailer
\* that fails on an empty message fails on every message.
C10_Original ==
  (constructed /\ call.op = "GenerateHTML") =>
    LET data == processTranslations(mailer, call.email, call.lang)
        bare == [mailer EXCEPT !.bundle = NewBundle]
    IN /\ ret.err <=> ExecuteFails(mailer.template, data)
       /\ ret.err => ret.html = NoDoc
       /\ ret.err = GenerateHTML(bare, call.email, call.lang).err
       /\ (EmptyBody(call.email) /\ ret.err) =>
            \A e \in Emails : GenerateHTML(mailer, e, call.lang).err

\* C10, amended: HTML render errors are returned, not swallowed.
\* GenerateHTML returns an error exactly when the template's execution
\* fails, then with the empty document, else the whole document with no
\* error; the catalog (a translation miss) never changes whether it
\* fails; and with the built-in template, or any template that executes
\* on every context, no message, the empty one included, is an error.
C10_HTMLErrorsReturned ==
  (constructed /\ call.op = "GenerateHTML") =>
    LET data == processTranslations(mailer, call.email, call.lang)
        bare == [mailer EXCEPT !.bundle = NewBundle]
    IN /\ ret.err <=> ExecuteFails(mailer.template, data)
       /\ ret.err => ret.html = NoDoc
       /\ ~ret.err => ret.html = <<mailer.template.src, data>>
       /\ ret.err = GenerateHTML(bare, call.email, call.lang).err
       /\ AlwaysExecutes(mailer.template) => ~ret.err

\* C10 witness: a template whose execution fails made GenerateHTML return
\* an error and the empty document
C10_Witness ==
  /\ constructed /\ call.op = "GenerateHTML"
  /\ mailer.template.src = TplFirstIntro
  /\ call.email.Body.Intros = <<>>
  /\ ret.err /\ ret.html = NoDoc

\* the template option New acts on, by the options' priority
UsesParsed(c) == c.CustomTemplate # NilTemplate
UsesString(c) == ~UsesParsed(c) /\ c.CustomTemplateText # ""
UsesFile(c) ==
  /\ ~UsesParsed(c) /\ c.CustomTemplateText = ""
  /\ c.CustomTemplateFS # NoFS /\ c.CustomTemplatePath # ""

Loaded(f) == call'.op \in Loads /\ f.path = call'.path

\* C12: a catalog load failure is recoverable and local.  A load returns
\* an error exactly when its file is missing or malformed; the failed load
\* leaves the Mailer as it was, so every entry loaded before still
\* resolves, every key resolves as before (a key not found to itself),
\* and every render after it returns what it returned before it: the text
\* render never an error, the HTML render no error it did not give before.
C12_LoadFailureLocal ==
  [][\A f \in MessageFiles : Loaded(f) =>
        /\ ret'.err <=> f.status # "ok"
        /\ ret'.err =>
             /\ constructed' /\ mailer' = mailer
             /\ \A e \in mailer.bundle.messageTemplates :
                  /\ e \in mailer'.bundle.messageTemplates
                  /\ Resolves(mailer.bundle, e.tag, e.id)
                       => Resolves(mailer'.bundle, e.tag, e.id)
             /\ \A l \in Langs, k \in Keys :
                  /\ translate(mailer', l, k, "") = translate(mailer, l, k, "")
                  /\ Miss(l, k) => translate(mailer', l, k, "") = k
             /\ \A r \in {Named, Sample} \X Langs :
                  /\ ~GeneratePlainText(mailer', r[1], r[2]).err
                  /\ GeneratePlainText(mailer', r[1], r[2])
                       = GeneratePlainText(mailer, r[1], r[2])
                  /\ GenerateHTML(mailer', r[1], r[2])
                       = GenerateHTML(mailer, r[1], r[2])
                  /\ AlwaysExecutes(mailer.template)
                       => ~GenerateHTML(mailer', r[1], r[2]).err]_vars

\* C12 witness: with the English catalog loaded, the load of a malformed
\* file returned an error and the greeting still resolves
C12_Witness ==
  /\ constructed
  /\ call.op \in Loads /\ call.path = "locales/fr.json" /\ ret.err
  /\ Resolves(mailer.bundle, "en", "greeting")
  /\ GeneratePlainText(mailer, Named, "en").doc[1] = "Hello Ann,"
  /\ ~GenerateHTML(mailer, Named, "en").err

\* the lines before the dictionary group of the text of message b: the
\* greeting block, the title block, the intros
BeforeDictionary(b) ==
  2 + (IF b.Title # "" THEN 2 ELSE 0) + 2 * Len(b.Intros)

\* the lines before the actions of the text of message b
BeforeActions(b) ==
  BeforeDictionary(b) + Len(b.Dictionary)
    + (IF Len(b.Dictionary) > 0 THEN 1 ELSE 0)

\* s ends with t
EndsWith(s, t) ==
  /\ Len(s) >= Len(t)
  /\ SubSeq(s, Len(s) - Len(t) + 1, Len(s)) = t

\* C13: literal-only fields are never translated.  Under every language
\* and catalog, the recipient name, dictionary values, table cell values
\* and column settings, button link and color, the inverted flag, the
\* attachments and the product's name, link and logo are in the HTML
\* context as supplied, and the text shows the name, the dictionary
\* values, the button links, the attachment lines and the product name as
\* supplied, also when the value is a key of the loaded catalog.
C13_LiteralFields ==
  /\ RenderedHTML =>
       LET b == call.email.Body
           d == ret.html[2]
       IN /\ d.Body.Name = b.Name
          /\ Len(d.Body.Dictionary) = Len(b.Dictionary)
          /\ \A i \in 1..Len(b.Dictionary) :
               d.Body.Dictionary[i].Value = b.Dictionary[i].Value
          /\ Len(d.Body.Table.Data) = Len(b.Table.Data)
          /\ \A i \in 1..Len(b.Table.Data) :
               /\ Len(d.Body.Table.Data[i]) = Len(b.Table.Data[i])
               /\ \A j \in 1..Len(b.Table.Data[i]) :
                    d.Body.Table.Data[i][j].Value = b.Table.Data[i][j].Value
          /\ d.Body.Table.Columns = b.Table.Columns
          /\ Len(d.Body.Actions) = Len(b.Actions)
          /\ \A i \in 1..Len(b.Actions) :
               /\ d.Body.Actions[i].Button.Link = b.Actions[i].Button.Link
               /\ d.Body.Actions[i].Button.Color = b.Actions[i].Button.Color
               /\ d.Body.Actions[i].InvertedButton = b.Actions[i].InvertedButton
          /\ d.Body.Attachments = b.Attachments
          /\ d.Product.Name = mailer.product.Name
          /\ d.Product.Link = mailer.product.Link
          /\ d.Product.Logo = mailer.product.Logo
  /\ RenderedText =>
       LET b == call.email.Body
           n == Len(ret.text)
           atts == Len(b.Attachments)
       IN /\ EndsWith(ret.text[1], " " \o b.Name \o ",")
          /\ \A i \in 1..Len(b.Dictionary) :
               EndsWith(ret.text[BeforeDictionary(b) + i],
                        ": " \o b.Dictionary[i].Value)
          /\ \A i \in 1..Len(b.Actions) :
               EndsWith(ret.text[BeforeActions(b) + 3 * i - 1],
                        ": " \o b.Actions[i].Button.Link)
          /\ \A i \in 1..atts :
               /\ ret.text[n - 2 * atts - 6 + 2 * i] = AttachmentLine(b.Attachments[i])
               /\ ret.text[n - 2 * atts - 5 + 2 * i] = "    " \o b.Attachments[i].URL
          /\ ret.text[n - 2] = mailer.product.Name

\* C13 witness: with "x" -> "Hi" loaded, the message whose literal fields
\* read "x" was rendered under "en": the intro x came out as "Hi", the
\* name, the dictionary value and the product name as "x"
C13_Witness ==
  /\ RenderedHTML
  /\ call.email = Keyed /\ call.lang = "en"
  /\ ret.html[2].Body.Intros[1] = "Hi"
  /\ ret.html[2].Body.Name = "x"
  /\ ret.html[2].Body.Dictionary[1].Value = "x"
  /\ ret.html[2].Body.Actions[1].Button.Link = "x"
  /\ ret.html[2].Product.Name = "x"

\* C14: template source resolution.  New resolves one template: the
\* caller's parsed template if one is given, else the parsed template
\* string if it is not empty, else the parsed file if a filesystem and a
\* non-empty path are given, else the parsed built-in default; a nil
\* template, an empty string and a nil filesystem or empty path count as
\* not given.  An HTML document is filled from that template alone.
C14_TemplateResolution ==
  /\ call.op = "New" =>
       LET c == call.config
       IN /\ UsesParsed(c) =>
               constructed /\ mailer.template = c.CustomTemplate
          /\ (constructed /\ c.CustomTemplate = NilTemplate
                /\ c.CustomTemplateText # "")
               => mailer.template = Parse(c.CustomTemplateText)
          /\ (constructed /\ c.CustomTemplate = NilTemplate
                /\ c.CustomTemplateText = ""
                /\ c.CustomTemplateFS # NoFS /\ c.CustomTemplatePath # "")
               => mailer.template =
                    Parse(CustomFSFiles[c.CustomTemplatePath])
          /\ (c.CustomTemplate = NilTemplate /\ c.CustomTemplateText = ""
                /\ (c.CustomTemplateFS = NoFS \/ c.CustomTemplatePath = ""))
               => constructed /\ mailer.template = Parse(DefaultHTML)
          /\ c = ZeroConfig => mailer.template.src = DefaultHTML
  /\ RenderedHTML => ret.html[1] = mailer.template.src

\* C14 witness: New was given a parsed template, a template string and a
\* template file at once, and holds the parsed template
C14_Witness ==
  /\ call.op = "New" /\ constructed
  /\ call.config.CustomTemplate = Parse(TplMinimal)
  /\ call.config.CustomTemplateText # ""
  /\ call.config.CustomTemplatePath # ""
  /\ mailer.template = Parse(TplMinimal)

\* the tables a message is given
Tables ==
  {[Data |-> q, Columns |-> c] :
     q \in Lists(RowPool), c \in {NoColumns, SomeColumns}}

\* C15: table data never reaches the plain text.  Replacing the Table of
\* the rendered message by any other table (rows, cells, column settings)
\* gives the same text document, while the HTML context holds every row
\* and cell of the table in order: the resolved key and the value as given.
C15_TableOmittedFromText ==
  /\ RenderedText =>
       \A t \in Tables :
          GeneratePlainText(mailer, [call.email EXCEPT !.Body.Table = t],
                            call.lang).doc = ret.text
  /\ RenderedHTML =>
       LET data == call.email.Body.Table.Data
           out == ret.html[2].Body.Table.Data
       IN /\ Len(out) = Len(data)
          /\ \A i \in 1..Len(data) :
               /\ Len(out[i]) = Len(data[i])
               /\ \A j \in 1..Len(data[i]) :
                    /\ out[i][j].Key =
                         translate(mailer, call.lang, data[i][j].Key, "")
                    /\ out[i][j].Value = data[i][j].Value

\* C15 witness: a message with a table of two rows was rendered to the
\* text the same message without a table gives
C15_Witness ==
  /\ RenderedText
  /\ Len(call.email.Body.Table.Data) = 2
  /\ call.email.Body.Table.Data[2][1].Value = "1"
  /\ ret.text =
       GeneratePlainText(mailer,
                         [call.email EXCEPT
                            !.Body.Table = [Data |-> <<>>, Columns |-> NoColumns]],
                         call.lang).doc

\* the HTML render used the built-in template
RenderedDefault == RenderedHTML /\ mailer.template.src = DefaultHTML

\* C16: per-button color override.  Every button reaches the template
\* with its own Color, and the theme reaches it as the Mailer holds it,
\* one of the themes as defined; with the built-in template a button with
\* a Color is rendered in that color, whatever the theme's ButtonColor,
\* and a button without one, of the same message too, in the theme's.
C16_ButtonColorOverride ==
  /\ constructed => mailer.theme \in {DefaultTheme, FlatTheme}
  /\ RenderedHTML =>
       LET d == ret.html[2]
           acts == call.email.Body.Actions
       IN /\ d.Theme = mailer.theme
          /\ Len(d.Body.Actions) = Len(acts)
          /\ \A i \in 1..Len(acts) :
               /\ d.Body.Actions[i].Button.Color = acts[i].Button.Color
               /\ RenderedDefault =>
                    DefaultButtonColor(d, i) =
                      IF acts[i].Button.Color # "" THEN acts[i].Button.Color
                      ELSE mailer.theme.ButtonColor

\* C16 witness: a message with a plain button and a red one was rendered
\* by the built-in template, the first in the theme's color, the second red
C16_Witness ==
  /\ RenderedDefault
  /\ Len(call.email.Body.Actions) = 2
  /\ call.email.Body.Actions[1].Button.Color = ""
  /\ call.email.Body.Actions[2].Button.Color = "#FF0000"
  /\ DefaultButtonColor(ret.html[2], 1) = "#3869D4"
  /\ DefaultButtonColor(ret.html[2], 2) = "#FF0000"
  /\ mailer.theme = DefaultTheme

\* C17: inverted button.  Every action reaches the template with its own
\* InvertedButton flag; with the built-in template an inverted action is
\* rendered with the class "email-button-inverted" and any other action
\* with the solid class, a different one.
C17_InvertedButton ==
  RenderedHTML =>
    LET d == ret.html[2]
        acts == call.email.Body.Actions
    IN /\ Len(d.Body.Actions) = Len(acts)
       /\ \A i \in 1..Len(acts) :
            /\ d.Body.Actions[i].InvertedButton = acts[i].InvertedButton
            /\ RenderedDefault =>
                 /\ acts[i].InvertedButton
                      => DefaultButtonClass(d, i) = "email-button-inverted"
                 /\ ~acts[i].InvertedButton
                      => DefaultButtonClass(d, i) = "email-button"

\* C17 witness: a message with a solid action and an inverted one was
\* rendered by the built-in template with the two classes
C17_Witness ==
  /\ RenderedDefault
  /\ Len(call.email.Body.Actions) = 2
  /\ ~call.email.Body.Actions[1].InvertedButton
  /\ call.email.Body.Actions[2].InvertedButton
  /\ DefaultButtonClass(ret.html[2], 1) = "email-button"
  /\ DefaultButtonClass(ret.html[2], 2) = "email-button-inverted"

\* C18: an empty key with no default resolves to empty without a lookup.
\* translate("", "") is "" under every language and catalog, also when the
\* selected catalog has an entry for the empty message id; so an empty
\* Title, intro, outro, dictionary key, instruction or button text is
\* empty in the HTML context and in the text.
C18_EmptyKeyStaysEmpty ==
  /\ constructed =>
       \A l \in Langs : translate(mailer, l, "", "") = ""
  /\ RenderedHTML =>
       LET b == call.email.Body
           d == ret.html[2].Body
       IN /\ b.Title = "" => d.Title = ""
          /\ \A i \in 1..Len(b.Intros) : b.Intros[i] = "" => d.Intros[i] = ""
          /\ \A i \in 1..Len(b.Outros) : b.Outros[i] = "" => d.Outros[i] = ""
          /\ \A i \in 1..Len(b.Dictionary) :
               b.Dictionary[i].Key = "" => d.Dictionary[i].Key = ""
          /\ \A i \in 1..Len(b.Actions) :
               /\ b.Actions[i].Instructions = ""
                    => d.Actions[i].Instructions = ""
               /\ b.Actions[i].Button.Text = ""
                    => d.Actions[i].Button.Text = ""
          /\ \A i \in 1..Len(b.Table.Data) :
               \A j \in 1..Len(b.Table.Data[i]) :
                  b.Table.Data[i][j].Key = ""
                    => d.Table.Data[i][j].Key = ""
  /\ RenderedText =>
       LET b == call.email.Body
           t == IF b.Title # "" THEN 2 ELSE 0
       IN /\ \A i \in 1..Len(b.Intros) :
               b.Intros[i] = "" => ret.text[2 + t + 2 * i - 1] = ""
          /\ \A i \in 1..Len(b.Dictionary) :
               b.Dictionary[i].Key = ""
                 => ret.text[BeforeDictionary(b) + i]
                      = ": " \o b.Dictionary[i].Value
          /\ \A i \in 1..Len(b.Actions) :
               /\ b.Actions[i].Instructions = ""
                    => ret.text[BeforeActions(b) + 3 * i - 2] = ""
               /\ b.Actions[i].Button.Text = ""
                    => ret.text[BeforeActions(b) + 3 * i - 1]
                         = ": " \o b.Actions[i].Button.Link
          /\ \A i \in 1..Len(b.Outros) :
               b.Outros[i] = ""
                 => ret.text[BeforeActions(b) + 3 * Len(b.Actions) + 2 * i - 1]
                      = ""

\* C18 witness: with a catalog that has an entry for the empty message id,
\* the message with empty fields was rendered under that catalog and its
\* title and intro are empty
C18_Witness ==
  /\ RenderedHTML
  /\ call.email = Blank /\ call.lang = "en"
  /\ HasTemplate(mailer.bundle, "en", "")
  /\ Text(mailer.bundle, "en", "") = "Blank id"
  /\ ret.html[2].Body.Title = ""
  /\ ret.html[2].Body.Intros = <<"">>
  /\ ret.html[2].Body.Actions[1].Button.Text = ""

\* the lines before the outros, the attachments group and the signature
\* block of the text of message b
BeforeOutros(b) == BeforeActions(b) + 3 * Len(b.Actions)
BeforeAttachments(b) == BeforeOutros(b) + 2 * Len(b.Outros)
BeforeSignature(b) ==
  BeforeAttachments(b)
    + (IF Len(b.Attachments) > 0 THEN 2 * Len(b.Attachments) + 2 ELSE 0)

\* C19: the plain-text section order is fixed.  Every text document is,
\* in this order: the greeting line "<Greeting> <Name>," and a blank line;
\* the title block; every intro and a blank line, in input order; the
\* dictionary group; per action, in input order, the instruction line,
\* "<ButtonText>: <ButtonLink>" and a blank line; every outro and a blank
\* line, in input order; the attachments group; "<Signature>,", the
\* product name and a blank line; and the resolved copyright as its last
\* line, with nothing after it.
C19_SectionOrder ==
  RenderedText =>
    LET b == call.email.Body
        tr(key, defaultKey) == translate(mailer, call.lang, key, defaultKey)
        t == ret.text
    IN /\ t[1] = tr(b.Greeting, "greeting") \o " " \o b.Name \o ","
       /\ t[2] = ""
       /\ b.Title # "" => t[3] = tr(b.Title, "") /\ t[4] = ""
       /\ \A i \in 1..Len(b.Intros) :
            /\ t[BeforeDictionary(b) - 2 * Len(b.Intros) + 2 * i - 1]
                 = tr(b.Intros[i], "")
            /\ t[BeforeDictionary(b) - 2 * Len(b.Intros) + 2 * i] = ""
       /\ \A i \in 1..Len(b.Dictionary) :
            t[BeforeDictionary(b) + i]
              = tr(b.Dictionary[i].Key, "") \o ": " \o b.Dictionary[i].Value
       /\ Len(b.Dictionary) > 0 => t[BeforeActions(b)] = ""
       /\ \A i \in 1..Len(b.Actions) :
            /\ t[BeforeActions(b) + 3 * i - 2] = tr(b.Actions[i].Instructions, "")
            /\ t[BeforeActions(b) + 3 * i - 1]
                 = tr(b.Actions[i].Button.Text, "") \o ": "
                     \o b.Actions[i].Button.Link
            /\ t[BeforeActions(b) + 3 * i] = ""
       /\ \A i \in 1..Len(b.Outros) :
            /\ t[BeforeOutros(b) + 2 * i - 1] = tr(b.Outros[i], "")
            /\ t[BeforeOutros(b) + 2 * i] = ""
       /\ Len(b.Attachments) > 0 =>
            /\ t[BeforeAttachments(b) + 1] = "Attachments:"
            /\ \A i \in 1..Len(b.Attachments) :
                 /\ t[BeforeAttachments(b) + 2 * i]
                      = AttachmentLine(b.Attachments[i])
                 /\ t[BeforeAttachments(b) + 2 * i + 1]
                      = "    " \o b.Attachments[i].URL
            /\ t[BeforeSignature(b)] = ""
       /\ t[BeforeSignature(b) + 1] = tr(b.Signature, "signature") \o ","
       /\ t[BeforeSignature(b) + 2] = mailer.product.Name
       /\ t[BeforeSignature(b) + 3] = ""
       /\ t[BeforeSignature(b) + 4]
            = tr(mailer.product.Copyright, "product.copyright")
       /\ Len(t) = BeforeSignature(b) + 4

\* C19 witness: the message with one element of every section was
\* rendered with no catalog loaded
C19_Witness ==
  /\ RenderedText
  /\ call.email = Sample
  /\ mailer.bundle.messageTemplates = {}
  /\ mailer.product = Acme
  /\ ret.text =
       <<"greeting Ann,", "", "x", "", "x", "", "x: x", "",
         "x", "y: https://acme.io/a", "", "See you", "",
         "Attachments:", "  - a.pdf (PDF Document, 2.5 MB)",
         "    https://acme.io/a.pdf", "",
         "signature,", "Acme", "", "product.copyright">>

\* C20 as stated: plain-text title gating.  The text has the title line
\* and a blank line after the greeting block exactly when the resolved
\* title is not empty; when it is empty, the text is that of the same
\* message with no title, with no line for the title at all.
C20_TitleGating ==
  RenderedText =>
    LET b == call.email.Body
        resolved == translate(mailer, call.lang, b.Title, "")
    IN /\ resolved # "" =>
            /\ ret.text[3] = resolved /\ ret.text[4] = ""
            /\ Len(ret.text) = BeforeSignature([b EXCEPT !.Title = ""]) + 6
       /\ resolved = "" =>
            ret.text =
              GeneratePlainText(mailer, [call.email EXCEPT !.Body.Title = ""],
                                call.lang).doc

\* C21: plain-text dictionary grouping.  The text of a message with a
\* dictionary of n entries is the text of the same message without the
\* dictionary with, put in after the intros, the n lines
\* "<resolved Key>: <Value>" in input order, none of them blank, and then
\* one blank line when n >= 1; for n = 0 nothing is put in.
C21_DictionaryGrouping ==
  RenderedText =>
    LET b == call.email.Body
        n == Len(b.Dictionary)
        bare == GeneratePlainText(mailer,
                                  [call.email EXCEPT !.Body.Dictionary = <<>>],
                                  call.lang).doc
        at == BeforeDictionary(b)
        group == [i \in 1..n |->
                    translate(mailer, call.lang, b.Dictionary[i].Key, "")
                      \o ": " \o b.Dictionary[i].Value]
    IN /\ ret.text = SubSeq(bare, 1, at) \o group
                       \o (IF n >= 1 THEN <<"">> ELSE <<>>)
                       \o SubSeq(bare, at + 1, Len(bare))
       /\ \A i \in 1..n : ret.text[at + i] # ""
       /\ Len(ret.text) = Len(bare) + n + (IF n >= 1 THEN 1 ELSE 0)

\* C21 witness: a message with two dictionary entries and nothing else
\* was rendered: two lines, one blank line, the signature block
C21_Witness ==
  /\ RenderedText
  /\ Len(call.email.Body.Dictionary) = 2
  /\ call.email.Body.Dictionary[2] = Entry("User", "ann")
  /\ ret.text[3] = "x: x"
  /\ ret.text[4] = "User: ann"
  /\ ret.text[5] = ""
  /\ ret.text[6] = "signature,"

\* C22: plain-text attachment line format.  The text of a message with
\* attachments is the text of the same message without them with, put in
\* before the signature block, the header "Attachments:", two lines per
\* attachment in input order and one blank line; with no attachment
\* nothing is put in.  The first line of an attachment is "  - <Name>",
\* then " (<Type>, <Size>)" when both are given, " (<Type>)" or
\* " (<Size>)" when one is, nothing when none is; the second is the URL
\* after four spaces.
C22_AttachmentFormat ==
  RenderedText =>
    LET atts == call.email.Body.Attachments
        n == Len(atts)
        bare == GeneratePlainText(mailer,
                                  [call.email EXCEPT !.Body.Attachments = <<>>],
                                  call.lang).doc
        at == Len(bare) - 4
    IN /\ n = 0 => ret.text = bare
       /\ n > 0 =>
            /\ Len(ret.text) = Len(bare) + 2 * n + 2
            /\ SubSeq(ret.text, 1, at) = SubSeq(bare, 1, at)
            /\ SubSeq(ret.text, at + 2 * n + 3, Len(ret.text))
                 = SubSeq(bare, at + 1, Len(bare))
            /\ ret.text[at + 1] = "Attachments:"
            /\ ret.text[at + 2 * n + 2] = ""
            /\ \A i \in 1..n :
                 LET a == atts[i]
                     line == ret.text[at + 2 * i]
                 IN /\ (a.Type = "" /\ a.Size = "")
                         => line = "  - " \o a.Name
                    /\ (a.Type # "" /\ a.Size = "")
                         => line = "  - " \o a.Name \o " (" \o a.Type \o ")"
                    /\ (a.Type = "" /\ a.Size # "")
                         => line = "  - " \o a.Name \o " (" \o a.Size \o ")"
                    /\ (a.Type # "" /\ a.Size # "")
                         => line = "  - " \o a.Name \o " (" \o a.Type \o ", "
                                     \o a.Size \o ")"
                    /\ ret.text[at + 2 * i + 1] = "    " \o a.URL

\* C22 witness: a message with an attachment that has only a size and one
\* that has only a type was rendered
C22_Witness ==
  /\ RenderedText
  /\ Len(call.email.Body.Attachments) = 2
  /\ ret.text[3] = "Attachments:"
  /\ ret.text[4] = "  - c.png (1 MB)"
  /\ ret.text[5] = "    https://acme.io/c.png"
  /\ ret.text[6] = "  - d.csv (CSV)"
  /\ ret.text[8] = ""

\* what a field resolves to under the rendered language: a field with a
\* default key d resolves, when empty, as the key d does; a field with no
\* default key resolves, when empty, to the empty string
WithDefault(field, d) ==
  IF field = "" THEN translate(mailer, call.lang, d, "")
  ELSE translate(mailer, call.lang, field, "")

NoDefault(field) ==
  IF field = "" THEN "" ELSE translate(mailer, call.lang, field, "")

\* C23: the default-key table.  In the HTML context and in the text alike,
\* Greeting resolves with the default key "greeting", Signature with
\* "signature" and the product's Copyright with "product.copyright"; the
\* title, intros, outros, dictionary keys, table cell keys, instructions
\* and button texts resolve with no default key.
C23_DefaultKeyTable ==
  /\ RenderedHTML =>
       LET b == call.email.Body
           d == ret.html[2]
       IN /\ d.Body.Greeting = WithDefault(b.Greeting, "greeting")
          /\ d.Body.Signature = WithDefault(b.Signature, "signature")
          /\ d.Product.Copyright =
               WithDefault(mailer.product.Copyright, "product.copyright")
          /\ d.Body.Title = NoDefault(b.Title)
          /\ \A i \in 1..Len(b.Intros) :
               d.Body.Intros[i] = NoDefault(b.Intros[i])
          /\ \A i \in 1..Len(b.Outros) :
               d.Body.Outros[i] = NoDefault(b.Outros[i])
          /\ \A i \in 1..Len(b.Dictionary) :
               d.Body.Dictionary[i].Key = NoDefault(b.Dictionary[i].Key)
          /\ \A i \in 1..Len(b.Table.Data) :
               \A j \in 1..Len(b.Table.Data[i]) :
                  d.Body.Table.Data[i][j].Key
                    = NoDefault(b.Table.Data[i][j].Key)
          /\ \A i \in 1..Len(b.Actions) :
               /\ d.Body.Actions[i].Instructions
                    = NoDefault(b.Actions[i].Instructions)
               /\ d.Body.Actions[i].Button.Text
                    = NoDefault(b.Actions[i].Button.Text)
  /\ RenderedText =>
       LET b == call.email.Body
           t == ret.text
       IN /\ t[1] = WithDefault(b.Greeting, "greeting") \o " " \o b.Name \o ","
          /\ t[Len(t) - 3] = WithDefault(b.Signature, "signature") \o ","
          /\ t[Len(t)] =
               WithDefault(mailer.product.Copyright, "product.copyright")
          /\ b.Title # "" => t[3] = NoDefault(b.Title)
          /\ \A i \in 1..Len(b.Intros) :
               t[BeforeDictionary(b) - 2 * Len(b.Intros) + 2 * i - 1]
                 = NoDefault(b.Intros[i])
          /\ \A i \in 1..Len(b.Dictionary) :
               t[BeforeDictionary(b) + i]
                 = NoDefault(b.Dictionary[i].Key) \o ": "
                     \o b.Dictionary[i].Value
          /\ \A i \in 1..Len(b.Actions) :
               /\ t[BeforeActions(b) + 3 * i - 2]
                    = NoDefault(b.Actions[i].Instructions)
               /\ t[BeforeActions(b) + 3 * i - 1]
                    = NoDefault(b.Actions[i].Button.Text) \o ": "
                        \o b.Actions[i].Button.Link
          /\ \A i \in 1..Len(b.Outros) :
               t[BeforeOutros(b) + 2 * i - 1] = NoDefault(b.Outros[i])

\* C23 witness: with the English catalog loaded, a message with every
\* translatable field empty was rendered under "en": the three defaulted
\* fields carry the catalog's texts, the title is empty
C23_Witness ==
  /\ RenderedHTML
  /\ call.email = Named /\ call.lang = "en"
  /\ mailer.product.Copyright = ""
  /\ ret.html[2].Body.Greeting = "Hello"
  /\ ret.html[2].Body.Signature = "Best regards"
  /\ ret.html[2].Product.Copyright = "(c) Acme, all rights reserved"
  /\ ret.html[2].Body.Title = ""

\* C24: the projection preserves shape and order.  The HTML context's
\* intros, outros, dictionary, actions, attachments and table rows have
\* the lengths of the message's, every table row its own length, and the
\* element at each place is the one resolved from the message's element at
\* that place: nothing is sorted, dropped, repeated, padded or rejected.
C24_ShapeAndOrder ==
  RenderedHTML =>
    LET b == call.email.Body
        d == ret.html[2].Body
        tr(key) == translate(mailer, call.lang, key, "")
    IN /\ Len(d.Intros) = Len(b.Intros)
       /\ Len(d.Outros) = Len(b.Outros)
       /\ Len(d.Dictionary) = Len(b.Dictionary)
       /\ Len(d.Actions) = Len(b.Actions)
       /\ Len(d.Attachments) = Len(b.Attachments)
       /\ Len(d.Table.Data) = Len(b.Table.Data)
       /\ \A i \in 1..Len(b.Intros) : d.Intros[i] = tr(b.Intros[i])
       /\ \A i \in 1..Len(b.Outros) : d.Outros[i] = tr(b.Outros[i])
       /\ \A i \in 1..Len(b.Dictionary) :
            d.Dictionary[i] = Entry(tr(b.Dictionary[i].Key),
                                    b.Dictionary[i].Value)
       /\ \A i \in 1..Len(b.Actions) :
            d.Actions[i] =
              [Instructions |-> tr(b.Actions[i].Instructions),
               Button |-> [Text |-> tr(b.Actions[i].Button.Text),
                           Link |-> b.Actions[i].Button.Link,
                           Color |-> b.Actions[i].Button.Color],
               InvertedButton |-> b.Actions[i].InvertedButton]
       /\ \A i \in 1..Len(b.Attachments) :
            d.Attachments[i] = b.Attachments[i]
       /\ \A i \in 1..Len(b.Table.Data) :
            /\ Len(d.Table.Data[i]) = Len(b.Table.Data[i])
            /\ \A j \in 1..Len(b.Table.Data[i]) :
                 d.Table.Data[i][j] = Entry(tr(b.Table.Data[i][j].Key),
                                            b.Table.Data[i][j].Value)

\* C24 witness: the message with repeated intros and entries and a table
\* of a row of two cells and a row of one was rendered into a context of
\* the same shape
C24_Witness ==
  /\ RenderedHTML
  /\ call.email = Repeated
  /\ HasTemplate(mailer.bundle, "zh", "x")
  /\ ret.html[2].Body.Intros = <<"Ni hao", "Welcome aboard", "Ni hao">>
  /\ Len(ret.html[2].Body.Dictionary) = 2
  /\ Len(ret.html[2].Body.Table.Data[1]) = 2
  /\ Len(ret.html[2].Body.Table.Data[2]) = 1
  /\ Len(ret.html[2].Body.Attachments) = 3

\* the Go type under which a text value of the context reaches the
\* template engine: the type of a converted string, "string" for a plain one
GoType(v) == IF SubSeq(ToString(v), 1, 2) = "<<" THEN v[1] ELSE "string"

\* the text values of a template context other than the style override, in
\* the order the context lists them
TextValues(d) ==
  LET b == d.Body
      each(s, f(_)) == Flatten([i \in 1..Len(s) |-> f(s[i])], Len(s))
      pair(e) == <<e.Key, e.Value>>
      action(a) == <<a.Instructions, a.Button.Text, a.Button.Link,
                     a.Button.Color>>
      row(r) == each(r, pair)
      attachment(a) == <<a.Name, a.URL, a.Size, a.Type>>
  IN <<d.Product.Name, d.Product.Link, d.Product.Logo, d.Product.Copyright,
       d.Theme.PrimaryColor, d.Theme.BackgroundColor, d.Theme.TextColor,
       d.Theme.ButtonColor, d.Theme.ButtonTextColor,
       b.Name, b.Greeting, b.Signature, b.Title>>
     \o b.Intros \o b.Outros
     \o each(b.Dictionary, pair) \o each(b.Actions, action)
     \o each(b.Table.Data, row)
     \o b.Table.Columns.CustomWidth \o b.Table.Columns.CustomAlignment
     \o each(b.Attachments, attachment)

\* C25: only the style override bypasses escaping.  In the context of
\* every successful GenerateHTML call the custom CSS is the Mailer's
\* string converted to template.CSS, and every other text value (branding,
\* theme, body fields and list elements, resolved or literal) is a plain
\* string, which the template engine escapes for its place in the markup.
C25_OnlyStyleTrusted ==
  RenderedHTML =>
    LET d == ret.html[2]
    IN /\ GoType(d.CustomCSS) = "template.CSS"
       /\ d.CustomCSS[2] = mailer.customCSS
       /\ \A i \in 1..Len(TextValues(d)) : GoType(TextValues(d)[i]) = "string"

\* C25 witness: a Mailer built with a style override rendered a message
\* with a title, intros, a dictionary, a table, an action and an
\* attachment; the override is in the context as template.CSS
C25_Witness ==
  /\ RenderedHTML
  /\ call.email = Sample /\ call.lang = "zh"
  /\ mailer.customCSS = ".email-title { font-size: 28px; }"
  /\ ret.html[2].CustomCSS = CSS(".email-title { font-size: 28px; }")
  /\ Len(TextValues(ret.html[2])) > 13

\* C26: only the catalog is state.  Every call leaves the Mailer's
\* product, theme, template and custom CSS as they were; a render call
\* leaves the whole Mailer, catalog included, as it was, so that the
\* render the previous call made, made again after it, returns the same
\* document and error.
C26_OnlyCatalogIsState ==
  [][ /\ mailer'.product = mailer.product
      /\ mailer'.theme = mailer.theme
      /\ mailer'.template = mailer.template
      /\ mailer'.customCSS = mailer.customCSS
      /\ call'.op \in {"GenerateHTML", "GeneratePlainText"} =>
           /\ mailer' = mailer
           /\ call.op = "GenerateHTML" =>
                GenerateHTML(mailer', call.email, call.lang)
                  = [doc |-> ret.html, err |-> ret.err]
           /\ call.op = "GeneratePlainText" =>
                GeneratePlainText(mailer', call.email, call.lang)
                  = [doc |-> ret.text, err |-> ret.err]
    ]_vars

\* C26 witness: after two catalogs were loaded, a Mailer built with an
\* empty product copyright and the default theme rendered a message in
\* HTML, resolving the copyright, and its product is still the one of its
\* construction
C26_Witness ==
  /\ RenderedHTML
  /\ HasTemplate(mailer.bundle, "en", "x") /\ HasTemplate(mailer.bundle, "zh", "x")
  /\ ret.html[2].Product.Copyright = "(c) Acme, all rights reserved"
  /\ mailer.product = Acme
  /\ mailer.theme = DefaultTheme
  /\ mailer.customCSS = ""

\* what a finished call returned
Returned(r) == [doc |-> r.doc, err |-> r.err]
\* what the call returns when it runs alone on the Mailer with catalog b
Alone(r, b) ==
  LET m == [mailer EXCEPT !.bundle = b]
  IN IF r.op = "GenerateHTML" THEN GenerateHTML(m, r.email, r.lang)
     ELSE GeneratePlainText(m, r.email, r.lang)

\* C27: concurrent read-only renders are safe.  In the concurrent
\* specification, a GenerateHTML or GeneratePlainText call during which no
\* load was in progress returns, however its lookups were interleaved with
\* those of the other goroutine's render, the document and error it returns
\* when run alone on the catalog it began with (the one catalog that
\* existed during the call).
C27_ConcurrentRenders ==
  \A g \in Renderers :
     LET r == goroutines[g]
     IN (r.state = "done" /\ ~r.overlapped) =>
          \A b \in r.versions : Returned(r) = Alone(r, b)

\* C27 witness: after the Chinese catalog was loaded, a GenerateHTML and a
\* GeneratePlainText call ran at the same time, no load during them, and
\* both returned the Chinese greeting and title
C27_Witness ==
  LET h == goroutines["r1"]
      t == goroutines["r2"]
  IN /\ h.state = "done" /\ h.op = "GenerateHTML"
     /\ t.state = "done" /\ t.op = "GeneratePlainText"
     /\ h.together /\ t.together /\ ~h.overlapped /\ ~t.overlapped
     /\ h.versions = {mailer.bundle} /\ t.versions = {mailer.bundle}
     /\ HasTemplate(mailer.bundle, "zh", "greeting")
     /\ ~h.err /\ h.doc[2].Body.Greeting = "Nin hao"
     /\ h.doc[2].Body.Title = "Ni hao"
     /\ t.doc = GeneratePlainText(mailer, Titled, "zh").doc

\* C28: catalog loads are synchronized against concurrent renders.  In the
\* concurrent specification no lookup meets a catalog that is being
\* written (the runtime never ends the process for it), and every finished
\* render returns what it returns alone on one complete catalog that
\* existed during the call: the one before the load or the one after it.
C28_LoadsSynchronized ==
  /\ ~fatal
  /\ \A g \in Renderers :
        LET r == goroutines[g]
        IN r.state = "done" =>
             \E b \in r.versions : Returned(r) = Alone(r, b)

\* C29: renders do not modify their input.  When GenerateHTML or
\* GeneratePlainText has returned, the caller's Email is the value that
\* was passed: its intros, outros, dictionary, actions, table rows,
\* attachments and SMTP attachments hold their own elements, none the
\* resolved text, and rendering it again under any locale gives what the
\* passed value gives.
C29_InputUnchanged ==
  (constructed /\ call.op \in {"GenerateHTML", "GeneratePlainText"}) =>
    /\ call.after = call.email
    /\ \A l \in Langs :
         /\ GenerateHTML(mailer, call.after, l)
              = GenerateHTML(mailer, call.email, l)
         /\ GeneratePlainText(mailer, call.after, l)
              = GeneratePlainText(mailer, call.email, l)

\* C29 witness: a message whose intro, dictionary key, table key and
\* action are keys of the Chinese catalog was rendered in Chinese, the
\* context holds the Chinese texts, and the caller's message still holds
\* the keys
C29_Witness ==
  /\ RenderedHTML
  /\ call.email = Sample /\ call.lang = "zh"
  /\ ret.html[2].Body.Intros = <<"Ni hao">>
  /\ ret.html[2].Body.Dictionary[1].Key = "Ni hao"
  /\ ret.html[2].Body.Table.Data[1][1].Key = "Ni hao"
  /\ call.after.Body.Intros = <<"x">>
  /\ call.after.Body.Dictionary[1].Key = "x"
  /\ call.after.Body.Table.Data[1][1].Key = "x"
  /\ call.after.SMTPAttachments = Sample.SMTPAttachments

\* the key a defaulted field is resolved under
KeyOf(field, d) == IF field = "" THEN d ELSE field
\* the catalog maps the key to the empty string in some language
MapsToEmpty(key) ==
  \E e \in mailer.bundle.messageTemplates :
     e.id = key /\ ~Unparsable(e.text) /\ Executed(e.text) = ""
\* the catalog has no entry for the key
NoEntry(key) == \A e \in mailer.bundle.messageTemplates : e.id # key

\* C30: defaulted fields are never blank.  Unless the catalog maps the
\* key it is resolved under to the empty string, the greeting, the
\* signature and the copyright are non-empty in the HTML context and in
\* the plain text, for every message, branding, locale and catalog; a
\* field left empty whose default key has no entry in the catalog reads
\* "greeting", "signature" or "product.copyright".
C30_DefaultedNeverBlank ==
  LET b == call.email.Body
      g == KeyOf(b.Greeting, "greeting")
      s == KeyOf(b.Signature, "signature")
      c == KeyOf(mailer.product.Copyright, "product.copyright")
  IN /\ RenderedHTML =>
          LET d == ret.html[2]
          IN /\ ~MapsToEmpty(g) => d.Body.Greeting # ""
             /\ ~MapsToEmpty(s) => d.Body.Signature # ""
             /\ ~MapsToEmpty(c) => d.Product.Copyright # ""
             /\ (b.Greeting = "" /\ NoEntry(g)) => d.Body.Greeting = "greeting"
             /\ (b.Signature = "" /\ NoEntry(s)) =>
                  d.Body.Signature = "signature"
             /\ (mailer.product.Copyright = "" /\ NoEntry(c)) =>
                  d.Product.Copyright = "product.copyright"
     /\ RenderedText =>
          LET t == ret.text
          IN /\ ~MapsToEmpty(g) => t[1] # " " \o b.Name \o ","
             /\ ~MapsToEmpty(s) => t[Len(t) - 3] # ","
             /\ ~MapsToEmpty(c) => t[Len(t)] # ""
             /\ (b.Greeting = "" /\ NoEntry(g)) =>
                  t[1] = "greeting " \o b.Name \o ","
             /\ (b.Signature = "" /\ NoEntry(s)) => t[Len(t) - 3] = "signature,"
             /\ (mailer.product.Copyright = "" /\ NoEntry(c)) =>
                  t[Len(t)] = "product.copyright"

\* C30 witness: with only the Chinese catalog loaded, which has no
\* signature and no copyright, the empty message was rendered as text
\* under "zh" for a product without a copyright: the greeting is the
\* catalog's, the signature and the copyright read as their keys
C30_Witness ==
  /\ RenderedText
  /\ call.email = ZeroEmail /\ call.lang = "zh"
  /\ mailer.product.Copyright = ""
  /\ HasTemplate(mailer.bundle, "zh", "greeting")
  /\ NoEntry("signature") /\ NoEntry("product.copyright")
  /\ ret.text[1] = "Nin hao ,"
  /\ ret.text[Len(ret.text) - 3] = "signature,"
  /\ ret.text[Len(ret.text)] = "product.copyright"

====
